---- MODULE Spec2Model ----
(***************************************************************************)
(* A model of the theano runtime engine of the MicroPsi node net           *)
(* (micropsi_core/nodenet/theano_engine/theano_nodenet.py): the flat arena *)
(* allocator for nodes, elements and nodespaces, the weight matrix and the *)
(* link protocol on top of it, and the step method with its lock.          *)
(***************************************************************************)
EXTENDS Integers, Sequences, FiniteSets, TLC

(***************************************************************************)
(* Capacities of the arena.  The engine is built with 2000 nodes, 6000     *)
(* elements and 100 nodespaces; the model uses small capacities.           *)
(***************************************************************************)
NoN == 3
NoE == 8
NoNS == 4
MaxCalls == 5
MaxLinkCalls == 2
MaxFlagCalls == 4
MaxProtoCalls == 4
MaxThreadCalls == 3
MaxSteps == 2
MaxArenaNodespaceId == 2
MaxUnknownCalls == 3
MaxTreeCalls == 6
MaxActivatorCalls == 5
MaxSensorCalls == 4

NodeIds == 0..(NoN - 1)
Elements == 0..(NoE - 1)
NodespaceIds == 0..(NoNS - 1)

(***************************************************************************)
(* Numerical node types, gate indices and per-gate node function selectors *)
(* (theano_node.py).                                                       *)
(***************************************************************************)
REGISTER == 1
SENSOR == 2
ACTUATOR == 3
CONCEPT == 4
PIPE == 5
ACTIVATOR == 6
MAX_STD_NODETYPE == 6

GEN == 0
POR == 1
RET == 2
SUB == 3
SUR == 4
CAT == 5
EXP == 6

NFPG_PIPE_NON == 0
NFPG_PIPE_GEN == 1
NFPG_PIPE_POR == 2
NFPG_PIPE_RET == 3
NFPG_PIPE_SUB == 4
NFPG_PIPE_SUR == 5
NFPG_PIPE_CAT == 6
NFPG_PIPE_EXP == 7

GateNames == <<"gen", "por", "ret", "sub", "sur", "cat", "exp">>
Dirs == {"por", "ret", "sub", "sur", "cat", "exp"}
\* order of the elif chains over the six directional activator vectors
DirOrder == <<"por", "ret", "sub", "sur", "cat", "exp">>
NoParam == "none"

\* name=None; create_node and create_nodespace store no name for None and for
\* the empty string
NoName == ""

\* position=None
NoPosition == <<>>

Min(S) == CHOOSE x \in S : \A y \in S : x <= y

\* get_numerical_gate_type / get_numerical_slot_type for standard node types
get_numerical_gate_type(name) ==
    CHOOSE k \in 0..6 : GateNames[k + 1] = name

get_string_gate_type(k) == GateNames[k + 1]

\* STANDARD_NODETYPES: the gate and slot lists of each standard type
gatetypes(type) ==
    IF type = PIPE THEN {"gen", "por", "ret", "sub", "sur", "cat", "exp"}
    ELSE IF type \in {REGISTER, SENSOR, ACTUATOR, ACTIVATOR} THEN {"gen"}
    ELSE {}

slottypes(type) ==
    IF type = PIPE THEN {"gen", "por", "ret", "sub", "sur", "cat", "exp"}
    ELSE IF type \in {REGISTER, SENSOR, ACTUATOR, ACTIVATOR} THEN {"gen"}
    ELSE {}

\* element count of a type: max(len(slottypes), len(gatetypes))
get_elements_per_type(type) ==
    LET g == Cardinality(gatetypes(type))
        s == Cardinality(slottypes(type))
    IN IF g >= s THEN g ELSE s

\* uids are the letter "n" (nodes) or "s" (nodespaces) followed by the id
node_to_id(id) == <<"n", id>>
node_from_id(uid) == uid[2]
nodespace_to_id(id) == <<"s", id>>
nodespace_from_id(uid) == uid[2]

\* the string that a uid is: "n%i" % id and "s%i" % id
UidString(uid) == uid[1] \o ToString(uid[2])

VARIABLES
    allocated_nodes,                  \* node id -> numeric type, 0 if free
    allocated_node_offsets,           \* node id -> first element
    allocated_node_parents,           \* node id -> nodespace id
    allocated_elements_to_nodes,      \* element -> node id, 0 if free
    allocated_nodespaces,             \* nodespace id -> parent nodespace id
    allocated_nodespaces_activators,  \* direction -> (nodespace id -> activator node id)
    allocated_elements_to_activators, \* element -> element of the activator
    last_allocated_node,
    last_allocated_offset,
    last_allocated_nodespace,
    w,                                \* weight matrix, w[<<target, source>>]
    sparse,                           \* storage mode of w
    precision,                        \* configured float width, "32" or "64"
    n_function_selector,
    n_node_porlinked,
    n_node_retlinked,
    sensormap,
    inverted_sensor_map,
    actuatormap,
    inverted_actuator_map,
    key_order,                        \* the keys of sensormap and of actuatormap in dict order
    names,                            \* uid -> name, for the nodes and nodespaces given one
    positions,                        \* uid -> position, for the nodes and nodespaces given one
    nodegroups,
    a,                                \* activations
    current_step,
    netlock,                          \* the thread that holds the lock, or Unlocked
    call,                             \* the last public call and its outcome
    ncalls,                           \* number of public calls made
    threads,                          \* position and locals of each thread
    gate,                             \* a Gate of a node of the dict engine
    activators,                       \* activators of the nodespace of that node
    disk,                             \* the files that save writes and load reads
    record_storage,                   \* the records of a log channel
    other,                            \* the maps that a second instance reads
    scan                              \* position and locals of an element scan

netvars == <<allocated_nodes, allocated_node_offsets, allocated_node_parents,
             allocated_elements_to_nodes, allocated_nodespaces,
             allocated_nodespaces_activators, allocated_elements_to_activators,
             last_allocated_node, last_allocated_offset, last_allocated_nodespace,
             w, sparse, precision, n_function_selector, n_node_porlinked, n_node_retlinked,
             sensormap, inverted_sensor_map, actuatormap, inverted_actuator_map,
             key_order, names, positions, nodegroups, a, current_step>>

\* state outside the TheanoNodenet instance
extvars == <<gate, activators, disk, record_storage, other, scan>>

vars == <<netvars, netlock, call, ncalls, threads, extvars>>

\* the engine instance as one value
Net ==
    [allocated_nodes |-> allocated_nodes,
     allocated_node_offsets |-> allocated_node_offsets,
     allocated_node_parents |-> allocated_node_parents,
     allocated_elements_to_nodes |-> allocated_elements_to_nodes,
     allocated_nodespaces |-> allocated_nodespaces,
     allocated_nodespaces_activators |-> allocated_nodespaces_activators,
     allocated_elements_to_activators |-> allocated_elements_to_activators,
     last_allocated_node |-> last_allocated_node,
     last_allocated_offset |-> last_allocated_offset,
     last_allocated_nodespace |-> last_allocated_nodespace,
     w |-> w,
     sparse |-> sparse,
     precision |-> precision,
     n_function_selector |-> n_function_selector,
     n_node_porlinked |-> n_node_porlinked,
     n_node_retlinked |-> n_node_retlinked,
     sensormap |-> sensormap,
     inverted_sensor_map |-> inverted_sensor_map,
     actuatormap |-> actuatormap,
     inverted_actuator_map |-> inverted_actuator_map,
     key_order |-> key_order,
     names |-> names,
     positions |-> positions,
     nodegroups |-> nodegroups,
     a |-> a,
     current_step |-> current_step,
     err |-> "ok",
     ret |-> 0]

InstallNet(S) ==
    /\ allocated_nodes' = S.allocated_nodes
    /\ allocated_node_offsets' = S.allocated_node_offsets
    /\ allocated_node_parents' = S.allocated_node_parents
    /\ allocated_elements_to_nodes' = S.allocated_elements_to_nodes
    /\ allocated_nodespaces' = S.allocated_nodespaces
    /\ allocated_nodespaces_activators' = S.allocated_nodespaces_activators
    /\ allocated_elements_to_activators' = S.allocated_elements_to_activators
    /\ last_allocated_node' = S.last_allocated_node
    /\ last_allocated_offset' = S.last_allocated_offset
    /\ last_allocated_nodespace' = S.last_allocated_nodespace
    /\ w' = S.w
    /\ sparse' = S.sparse
    /\ precision' = S.precision
    /\ n_function_selector' = S.n_function_selector
    /\ n_node_porlinked' = S.n_node_porlinked
    /\ n_node_retlinked' = S.n_node_retlinked
    /\ sensormap' = S.sensormap
    /\ inverted_sensor_map' = S.inverted_sensor_map
    /\ actuatormap' = S.actuatormap
    /\ inverted_actuator_map' = S.inverted_actuator_map
    /\ key_order' = S.key_order
    /\ names' = S.names
    /\ positions' = S.positions
    /\ nodegroups' = S.nodegroups
    /\ a' = S.a
    /\ current_step' = S.current_step

Install(S) ==
    /\ InstallNet(S)
    /\ UNCHANGED extvars


(***************************************************************************)
(* The weight matrix.  A dense matrix stores every cell; a sparse (CSR)    *)
(* matrix stores the cells that were assigned, explicit zeros included.    *)
(***************************************************************************)
NoUid == <<>>

(***************************************************************************)
(* Weights and activations.  A value is stored as twice the number, so the *)
(* number 1 is stored as 2 and the number 1/2 as 1.  A float64 holds every *)
(* value of the model exactly.  A float32 has 24 significant binary        *)
(* digits: an assignment to a float32 array rounds the value to 24 digits, *)
(* to the nearest and to the even mantissa on a tie.  The weights the      *)
(* calls are made with: 0, 1/2 and 8388608.5, which has 25 significant     *)
(* digits and is stored in a float32 array as 8388608.                     *)
(***************************************************************************)
One == 2

Weights == {0, 1, 16777217}

\* the number of binary digits that a value loses in a float32
Float32Shift(n) ==
    CHOOSE s \in 0..7 :
        /\ n \div (2 ^ s) < 16777216
        /\ s > 0 => n \div (2 ^ (s - 1)) >= 16777216

Float32Round(n) ==
    LET s == Float32Shift(n)
        q == n \div (2 ^ s)
        r == n % (2 ^ s)
    IN IF s = 0 THEN n
       ELSE IF 2 * r > 2 ^ s \/ (2 * r = 2 ^ s /\ q % 2 = 1)
            THEN (q + 1) * (2 ^ s)
            ELSE q * (2 ^ s)

Float32(v) == IF v < 0 THEN 0 - Float32Round(0 - v) ELSE Float32Round(v)

\* the value a matrix of dtype floatX keeps for an assigned weight
ToFloatX(S, v) == IF S.precision = "32" THEN Float32(v) ELSE v

WAt(wm, x, y) == IF <<x, y>> \in DOMAIN wm THEN wm[<<x, y>>] ELSE 0

\* an assignment that stores the weight at the transposed cell
SetSparseTransposed(wm, x, y, v) ==
    [p \in (DOMAIN wm) \cup {<<y, x>>} |-> IF p = <<y, x>> THEN v ELSE wm[p]]

\* w_matrix[x, y] = weight on a csr_matrix
SetSparse(wm, x, y, v) ==
    [p \in (DOMAIN wm) \cup {<<x, y>>} |-> IF p = <<x, y>> THEN v ELSE wm[p]]

\* an assignment that also clears the rest of the row
SetDenseClearRow(wm, x, y, v) ==
    [p \in DOMAIN wm |-> IF p[1] = x THEN (IF p[2] = y THEN v ELSE 0) ELSE wm[p]]

\* w_matrix[x][y] = weight on a dense array
SetDense(wm, x, y, v) == [wm EXCEPT ![<<x, y>>] = v]

\* sp.csr_matrix(w): the stored cells of a dense matrix are its non-zero cells
ToSparse(wm) ==
    LET nz == {p \in DOMAIN wm : wm[p] # 0} IN [p \in nz |-> wm[p]]

\* w.todense()
ToDense(wm) == wm @@ [p \in Elements \X Elements |-> 0]

\* the zero matrix the constructor builds
EmptyW(sp) ==
    IF sp THEN [p \in {} |-> 0] ELSE [p \in Elements \X Elements |-> 0]

get_numerical_node_type(name) ==
    CASE name = "Register" -> REGISTER
      [] name = "Sensor" -> SENSOR
      [] name = "Actor" -> ACTUATOR
      [] name = "Concept" -> CONCEPT
      [] name = "Pipe" -> PIPE
      [] name = "Activator" -> ACTIVATOR

\* is_node / get_node_uids
is_node(S, id) == S.allocated_nodes[id] # 0

LiveNodes(S) == {i \in DOMAIN S.allocated_nodes : S.allocated_nodes[i] # 0}

(***************************************************************************)
(* create_node, first part: the scan for a free id.                        *)
(***************************************************************************)
\* The result is the id, 0 when the scans find none, and -1 when the second
\* scan, below a cursor that lies beyond the vector, finds no free entry in
\* the vector and reads past its end (IndexError).
FindFreeNodeId(S) ==
    LET first == {i \in (S.last_allocated_node + 1)..(Cardinality(DOMAIN S.allocated_nodes) - 1) :
                     S.allocated_nodes[i] = 0}
        id1 == IF first = {} THEN 0 ELSE Min(first)
        second == {i \in (0..(S.last_allocated_node - 2)) \cap DOMAIN S.allocated_nodes :
                      S.allocated_nodes[i] = 0}
        id2 == IF second # {} THEN Min(second)
               ELSE IF S.last_allocated_node - 2 >= Cardinality(DOMAIN S.allocated_nodes)
                    THEN 0 - 1 ELSE 0
    IN IF id1 < 1 THEN id2 ELSE id1

(***************************************************************************)
(* create_node, second part: the scan for a run of free elements.  The     *)
(* result is the offset, or -1 when the scan raises MemoryError.           *)
(***************************************************************************)
\* a scan that only checks the end of the vector, not the owner of an element
FreeCountIgnoringOwners(ae, n, i) ==
    LET blocked == {j \in 0..(n - 1) : ~ (i + j < NoE)}
    IN IF blocked = {} THEN n ELSE Min(blocked)

FreeCount(ae, n, i) ==
    LET blocked == {j \in 0..(n - 1) :
                       ~ (i + j < NoE /\ (IF i + j < NoE THEN ae[i + j] ELSE 1) = 0)}
    IN IF blocked = {} THEN n ELSE Min(blocked)

RECURSIVE ScanElements(_, _, _, _)
ScanElements(ae, n, i, has_restarted_from_zero) ==
    LET freecount == FreeCount(ae, n, i)
        i2 == i + freecount + 1
    IN IF freecount >= n THEN i
       ELSE IF i2 >= NoE
            THEN IF ~ has_restarted_from_zero
                 THEN ScanElements(ae, n, 0, TRUE)
                 ELSE -1
            ELSE ScanElements(ae, n, i2, has_restarted_from_zero)

\* a scan that gives up at the end of the vector instead of wrapping
FindFreeOffsetNoWrap(S, number_of_elements) ==
    ScanElements(S.allocated_elements_to_nodes, number_of_elements,
                 S.last_allocated_offset + 1, TRUE)

FindFreeOffset(S, number_of_elements) ==
    ScanElements(S.allocated_elements_to_nodes, number_of_elements,
                 S.last_allocated_offset + 1, FALSE)

(***************************************************************************)
(* set_nodespace_gatetype_activator                                        *)
(***************************************************************************)
\* The write to the vector of the gate type (lines 1081-1092) raises
\* IndexError for a nodespace id beyond the vector; the loop over the Pipes
\* of the nodespace (1094-1098) raises at the first Pipe, IndexError for an
\* activator id beyond the node vectors and ValueError for a gate type that
\* is no gate name, after the write to the vector.
set_nodespace_gatetype_activator(S, nodespace_id, gate_type, activator_uid) ==
    LET activator_id == IF activator_uid # NoUid THEN node_from_id(activator_uid) ELSE 0
        vecs == IF gate_type \in Dirs
                THEN [S.allocated_nodespaces_activators
                        EXCEPT ![gate_type][nodespace_id] = activator_id]
                ELSE S.allocated_nodespaces_activators
        pipes == {nid \in DOMAIN S.allocated_nodes :
                     /\ S.allocated_node_parents[nid] = nodespace_id
                     /\ S.allocated_nodes[nid] = PIPE}
        cells == {S.allocated_node_offsets[nid] + get_numerical_gate_type(gate_type) :
                     nid \in pipes}
        S1 == [S EXCEPT !.allocated_nodespaces_activators = vecs, !.ret = 0]
    IN IF gate_type \in Dirs /\ nodespace_id \notin DOMAIN S.allocated_nodespaces
       THEN [S EXCEPT !.err = "IndexError", !.ret = 0]
       ELSE IF pipes = {} THEN [S1 EXCEPT !.err = "ok"]
       ELSE IF activator_id \notin DOMAIN S.allocated_node_offsets
            THEN [S1 EXCEPT !.err = "IndexError"]
       ELSE IF gate_type \notin {GateNames[k] : k \in 1..Len(GateNames)}
            THEN [S1 EXCEPT !.err = "ValueError"]
       ELSE [S1 EXCEPT
               !.allocated_elements_to_activators =
                   [e \in Elements |-> IF e \in cells
                                       THEN S.allocated_node_offsets[activator_id]
                                       ELSE S.allocated_elements_to_activators[e]],
               !.err = "ok"]

\* dict[key] = list + [id]
MapAppend(m, key, id) ==
    IF key \in DOMAIN m
    THEN [m EXCEPT ![key] = Append(m[key], id)]
    ELSE [k \in (DOMAIN m) \cup {key} |-> IF k = key THEN <<id>> ELSE m[k]]

MapPut(m, key, v) ==
    [k \in (DOMAIN m) \cup {key} |-> IF k = key THEN v ELSE m[k]]

MapDel(m, key) == [k \in (DOMAIN m) \ {key} |-> m[k]]

\* the order of the keys of a dict after an assignment to one key or the
\* deletion of keys: the keys that stay keep their places and a new key
\* comes last
DictOrder(order, m) ==
    LET kept == SelectSeq(order, LAMBDA k : k \in DOMAIN m)
        new == (DOMAIN m) \ {order[i] : i \in 1..Len(order)}
    IN IF new = {} THEN kept ELSE Append(kept, CHOOSE k \in new : TRUE)

(***************************************************************************)
(* create_node(nodetype, nodespace_uid, position, name=name, uid=uid,      *)
(*             parameters={datasource | datatarget | type: param})         *)
(***************************************************************************)
CreateNodeWrite(S, nodetype, nodespace_uid, position, name, id, offset, param) ==
    LET type == get_numerical_node_type(nodetype)
        uid == node_to_id(id)
        ns == nodespace_from_id(nodespace_uid)
        \* lines 915-916
        S0 == [S EXCEPT !.last_allocated_node = id, !.last_allocated_offset = offset]
        \* lines 917-919
        S1 == [S0 EXCEPT
                 !.allocated_nodes[id] = type,
                 !.allocated_node_parents[id] = ns,
                 !.allocated_node_offsets[id] = offset]
        run == offset..(offset + get_elements_per_type(type) - 1)
        \* lines 921-927
        S2 == [S1 EXCEPT
                 !.allocated_elements_to_nodes =
                     [e \in Elements |-> IF e \in run THEN id
                                         ELSE S1.allocated_elements_to_nodes[e]],
                 !.positions = IF position # NoPosition
                               THEN MapPut(S.positions, uid, position) ELSE S.positions,
                 !.names = IF name # NoName /\ name # UidString(uid)
                           THEN MapPut(S.names, uid, name) ELSE S.names,
                 !.err = "ok"]
        \* lines 959-970: the first of the six reads that raises IndexError,
        \* EXP + 1 when none does
        activator(k) == S2.allocated_nodespaces_activators[get_string_gate_type(k)][ns]
        failing == {k \in POR..EXP : activator(k) \notin DOMAIN S2.allocated_node_offsets}
        stop == IF ns \notin DOMAIN S2.allocated_nodespaces THEN POR
                ELSE IF failing = {} THEN EXP + 1 ELSE Min(failing)
        S3 == CASE nodetype = "Sensor" /\ param # NoParam ->
                     [S2 EXCEPT !.sensormap = MapAppend(S2.sensormap, param, id),
                                !.inverted_sensor_map = MapPut(S2.inverted_sensor_map, uid, param)]
                [] nodetype = "Actor" /\ param # NoParam ->
                     [S2 EXCEPT !.actuatormap = MapAppend(S2.actuatormap, param, id),
                                !.inverted_actuator_map = MapPut(S2.inverted_actuator_map, uid, param)]
                [] nodetype = "Pipe" ->
                     [S2 EXCEPT
                        !.n_function_selector =
                            [e \in Elements |->
                                IF e \in run THEN NFPG_PIPE_GEN + (e - offset)
                                ELSE S2.n_function_selector[e]],
                        !.allocated_elements_to_activators =
                            [e \in Elements |->
                                IF e \in (offset + POR)..(offset + stop - 1)
                                THEN S2.allocated_node_offsets[activator(e - offset)]
                                ELSE S2.allocated_elements_to_activators[e]],
                        !.err = IF stop <= EXP THEN "IndexError" ELSE "ok"]
                \* line 974: activator_type is not None and len(activator_type) > 0
                [] nodetype = "Activator" /\ param # NoParam /\ param # "" ->
                     set_nodespace_gatetype_activator(S2, ns, param, uid)
                [] OTHER -> S2
    IN IF id \notin DOMAIN S.allocated_nodes
       THEN [S0 EXCEPT !.err = "IndexError", !.ret = 0]
       ELSE [S3 EXCEPT !.key_order =
                          [sensormap |-> DictOrder(S.key_order.sensormap, S3.sensormap),
                           actuatormap |-> DictOrder(S.key_order.actuatormap, S3.actuatormap)],
                       !.ret = IF S3.err = "ok" THEN id ELSE 0]

\* a create_node that records the position and the name before the scans
CreateNodeNamedBeforeScan(S, nodetype, nodespace_uid, position, name, uid, param) ==
    LET id == IF uid = NoUid THEN FindFreeNodeId(S) ELSE node_from_id(uid)
        number_of_elements == get_elements_per_type(get_numerical_node_type(nodetype))
        offset == FindFreeOffset(S, number_of_elements)
        S0 == [S EXCEPT !.positions = IF position # NoPosition
                                      THEN MapPut(S.positions, node_to_id(id), position)
                                      ELSE S.positions,
                        !.names = IF name # NoName /\ name # UidString(node_to_id(id))
                                  THEN MapPut(S.names, node_to_id(id), name) ELSE S.names]
    IN IF uid = NoUid /\ id < 0
       THEN [S0 EXCEPT !.err = "IndexError", !.ret = 0]
       ELSE IF uid = NoUid /\ id < 1
       THEN [S0 EXCEPT !.err = "MemoryError: no free id", !.ret = 0]
       ELSE IF offset < 0
            THEN [S0 EXCEPT !.err = "MemoryError: no free elements", !.ret = 0]
            ELSE CreateNodeWrite(S, nodetype, nodespace_uid, position, name, id, offset, param)

create_node(S, nodetype, nodespace_uid, position, name, uid, param) ==
    LET id == IF uid = NoUid THEN FindFreeNodeId(S) ELSE node_from_id(uid)
        number_of_elements == get_elements_per_type(get_numerical_node_type(nodetype))
        offset == FindFreeOffset(S, number_of_elements)
    IN IF uid = NoUid /\ id < 0
       THEN [S EXCEPT !.err = "IndexError", !.ret = 0]
       ELSE IF uid = NoUid /\ id < 1
       THEN [S EXCEPT !.err = "MemoryError: no free id", !.ret = 0]
       ELSE IF offset < 0
            THEN [S EXCEPT !.err = "MemoryError: no free elements", !.ret = 0]
            ELSE CreateNodeWrite(S, nodetype, nodespace_uid, position, name, id, offset, param)


(***************************************************************************)
(* TheanoNode.unlink_completely: every weight on a row or a column of one  *)
(* of the node's elements becomes zero.                                    *)
(***************************************************************************)
unlink_completely(S, id) ==
    LET offset == S.allocated_node_offsets[id]
        run == offset..(offset + get_elements_per_type(S.allocated_nodes[id]) - 1)
    IN [S EXCEPT !.w = [p \in DOMAIN S.w |->
                           IF p[1] \in run \/ p[2] \in run THEN 0 ELSE S.w[p]]]

\* list.remove(v): the list without the first occurrence of v
SeqRemoveFirst(s, v) ==
    LET k == Min({i \in 1..Len(s) : s[i] = v})
    IN [i \in 1..(Len(s) - 1) |-> IF i < k THEN s[i] ELSE s[i + 1]]

\* delete_node, "remove sensor association" and "remove actuator association"
RemoveAssociation(map, inverted, uid, id) ==
    IF uid \notin DOMAIN inverted
    THEN [map |-> map, inverted |-> inverted, err |-> "ok"]
    ELSE LET key == inverted[uid]
             inv2 == MapDel(inverted, uid)
         IN IF key \notin DOMAIN map
            THEN [map |-> map, inverted |-> inv2, err |-> "KeyError"]
            ELSE IF id \notin {map[key][i] : i \in 1..Len(map[key])}
                 THEN [map |-> map, inverted |-> inv2, err |-> "ValueError"]
                 ELSE LET rest == SeqRemoveFirst(map[key], id)
                      IN [map |-> IF Len(rest) = 0 THEN MapDel(map, key)
                                  ELSE [map EXCEPT ![key] = rest],
                          inverted |-> inv2, err |-> "ok"]

\* delete_node, the elif chain over the six activator vectors of the parent
ClearNodespaceActivator(vecs, parent, id) ==
    LET hits == {k \in 1..6 : vecs[DirOrder[k]][parent] = id}
    IN IF hits = {} THEN vecs
       ELSE [vecs EXCEPT ![DirOrder[Min(hits)]][parent] = 0]

(***************************************************************************)
(* delete_node(uid).  The seven writes to n_function_selector go to        *)
(* offset+GEN .. offset+EXP whatever the type of the node; a write past    *)
(* the end of the vector raises IndexError and the rest of the method is   *)
(* not executed.                                                           *)
(***************************************************************************)
\* delete_node, lines 1056-1071: the activator entries that name the node
DeleteNodeActivators(S, id, offset, parent) ==
    [S EXCEPT
       !.allocated_elements_to_activators =
           [e \in Elements |-> IF S.allocated_elements_to_activators[e] = offset
                               THEN 0
                               ELSE S.allocated_elements_to_activators[e]],
       !.allocated_nodespaces_activators =
           ClearNodespaceActivator(S.allocated_nodespaces_activators, parent, id),
       !.err = "ok",
       !.ret = 0]

\* delete_node, lines 1046-1053 and what follows them
DeleteNodeActuator(S, uid, id, offset, parent) ==
    LET act == RemoveAssociation(S.actuatormap, S.inverted_actuator_map, uid, id)
    IN IF act.err # "ok"
       THEN [S EXCEPT !.actuatormap = act.map, !.inverted_actuator_map = act.inverted,
                      !.key_order.actuatormap = DictOrder(S.key_order.actuatormap, act.map),
                      !.err = act.err, !.ret = 0]
       ELSE DeleteNodeActivators(
                [S EXCEPT !.actuatormap = act.map, !.inverted_actuator_map = act.inverted,
                          !.key_order.actuatormap = DictOrder(S.key_order.actuatormap, act.map)],
                id, offset, parent)

\* delete_node, lines 1037-1044 and what follows them
DeleteNodeSensor(S, uid, id, offset, parent) ==
    LET sens == RemoveAssociation(S.sensormap, S.inverted_sensor_map, uid, id)
    IN IF sens.err # "ok"
       THEN [S EXCEPT !.sensormap = sens.map, !.inverted_sensor_map = sens.inverted,
                      !.key_order.sensormap = DictOrder(S.key_order.sensormap, sens.map),
                      !.err = sens.err, !.ret = 0]
       ELSE DeleteNodeActuator(
                [S EXCEPT !.sensormap = sens.map, !.inverted_sensor_map = sens.inverted,
                          !.key_order.sensormap = DictOrder(S.key_order.sensormap, sens.map)],
                uid, id, offset, parent)

\* delete_node, lines 1005-1021: the node is forgotten, then the seven
\* writes to n_function_selector
DeleteNodeForget(S, id, offset, run) ==
    [S EXCEPT
       !.allocated_nodes[id] = 0,
       !.allocated_node_offsets[id] = 0,
       !.allocated_node_parents[id] = 0,
       !.allocated_elements_to_nodes =
           [e \in Elements |-> IF e \in run THEN 0
                               ELSE S.allocated_elements_to_nodes[e]],
       !.n_function_selector =
           [e \in Elements |-> IF e \in offset..(offset + EXP)
                               THEN NFPG_PIPE_NON
                               ELSE S.n_function_selector[e]]]

delete_node(S, uid) ==
    LET id == node_from_id(uid)
        type == S.allocated_nodes[id]
        offset == S.allocated_node_offsets[id]
        parent == S.allocated_node_parents[id]
        run == offset..(offset + get_elements_per_type(type) - 1)
    IN IF ~ is_node(S, id)
       THEN [S EXCEPT !.err = "AttributeError", !.ret = 0]
       ELSE IF offset + EXP >= NoE
            THEN [DeleteNodeForget(unlink_completely(S, id), id, offset, run)
                    EXCEPT !.err = "IndexError", !.ret = 0]
            ELSE DeleteNodeSensor(
                     [DeleteNodeForget(unlink_completely(S, id), id, offset, run)
                        EXCEPT !.names = MapDel(S.names, uid),
                               !.positions = MapDel(S.positions, uid),
                               !.last_allocated_node = id - 1],
                     uid, id, offset, parent)

(***************************************************************************)
(* create_nodespace(parent_uid, position, name, uid)                       *)
(***************************************************************************)
\* The result is the id, 0 when the scans find none, and -1 when the second
\* scan reads past the end of the vector (IndexError), as for the nodes.
FindFreeNodespaceId(S) ==
    LET first == {i \in (S.last_allocated_nodespace + 1)..(NoNS - 1) :
                     S.allocated_nodespaces[i] = 0}
        id1 == IF first = {} THEN 0 ELSE Min(first)
        second == {i \in (0..(S.last_allocated_nodespace - 2)) \cap NodespaceIds :
                      S.allocated_nodespaces[i] = 0}
        id2 == IF second # {} THEN Min(second)
               ELSE IF S.last_allocated_nodespace - 2 >= NoNS THEN 0 - 1 ELSE 0
    IN IF id1 < 1 THEN id2 ELSE id1

create_nodespace(S, parent_uid, position, name, uid) ==
    LET id == IF uid = NoUid THEN FindFreeNodespaceId(S) ELSE nodespace_from_id(uid)
        parent_id == IF parent_uid # NoUid THEN nodespace_from_id(parent_uid) ELSE 0
    IN IF uid = NoUid /\ id < 0
       THEN [S EXCEPT !.err = "IndexError", !.ret = 0]
       ELSE IF uid = NoUid /\ id < 1
       THEN [S EXCEPT !.err = "MemoryError: no free id", !.ret = 0]
       \* line 1134 is done when line 1141 raises
       ELSE IF id \notin DOMAIN S.allocated_nodespaces
       THEN [S EXCEPT !.last_allocated_nodespace = id, !.err = "IndexError", !.ret = 0]
       ELSE [S EXCEPT !.last_allocated_nodespace = id,
                      !.allocated_nodespaces[id] = parent_id,
                      !.names = IF name # NoName /\ name # UidString(nodespace_to_id(id))
                                THEN MapPut(S.names, nodespace_to_id(id), name)
                                ELSE S.names,
                      !.positions = IF position # NoPosition
                                    THEN MapPut(S.positions, nodespace_to_id(id), position)
                                    ELSE S.positions,
                      !.err = "ok",
                      !.ret = id]

\* get_nodespace_uids / is_nodespace: the allocated entries and Root
is_nodespace(S, id) == S.allocated_nodespaces[id] # 0 \/ id = 1

(***************************************************************************)
(* delete_nodespace(uid): the child nodespaces first, then the nodes of    *)
(* the nodespace, both in ascending order of id; an exception of a         *)
(* delete_node ends the whole call.                                        *)
(***************************************************************************)
RECURSIVE delete_nodespace(_, _)
RECURSIVE DeleteChildNodespaces(_, _)
RECURSIVE DeleteNodesOf(_, _)

DeleteChildNodespaces(S, children_ids) ==
    IF children_ids = {} THEN S
    ELSE LET child_id == Min(children_ids)
             S1 == delete_nodespace(S, nodespace_to_id(child_id))
         IN IF S1.err # "ok" THEN S1
            ELSE DeleteChildNodespaces(S1, children_ids \ {child_id})

DeleteNodesOf(S, node_ids) ==
    IF node_ids = {} THEN S
    ELSE LET node_id == Min(node_ids)
             S1 == delete_node(S, node_to_id(node_id))
         IN IF S1.err # "ok" THEN S1
            ELSE DeleteNodesOf(S1, node_ids \ {node_id})

\* a delete_nodespace that deletes the nodes of the nodespace before its children
DeleteNodespaceNodesFirst(S, uid) ==
    LET nodespace_id == nodespace_from_id(uid)
        node_ids == {n \in DOMAIN S.allocated_nodes : S.allocated_node_parents[n] = nodespace_id}
        S1 == DeleteNodesOf([S EXCEPT !.err = "ok"], node_ids)
        children_ids == {c \in NodespaceIds : S1.allocated_nodespaces[c] = nodespace_id}
        S2 == DeleteChildNodespaces(S1, children_ids)
    IN IF S1.err # "ok" THEN S1
       ELSE IF S2.err # "ok" THEN S2
            ELSE [S2 EXCEPT !.names = MapDel(S2.names, uid),
                            !.positions = MapDel(S2.positions, uid),
                            !.allocated_nodespaces[nodespace_id] = 0,
                            !.last_allocated_nodespace = nodespace_id,
                            !.err = "ok",
                            !.ret = 0]

\* a delete_nodespace that moves the cursor below the freed id, as delete_node does
DeleteNodespaceCursorBelow(S, uid) ==
    LET nodespace_id == nodespace_from_id(uid)
        children_ids == {c \in NodespaceIds : S.allocated_nodespaces[c] = nodespace_id}
        S1 == DeleteChildNodespaces([S EXCEPT !.err = "ok"], children_ids)
        node_ids == {n \in DOMAIN S1.allocated_nodes : S1.allocated_node_parents[n] = nodespace_id}
        S2 == DeleteNodesOf(S1, node_ids)
    IN IF S1.err # "ok" THEN S1
       ELSE IF S2.err # "ok" THEN S2
            ELSE [S2 EXCEPT !.names = MapDel(S2.names, uid),
                            !.positions = MapDel(S2.positions, uid),
                            !.allocated_nodespaces[nodespace_id] = 0,
                            !.last_allocated_nodespace = nodespace_id - 1,
                            !.err = "ok",
                            !.ret = 0]

delete_nodespace(S, uid) ==
    LET nodespace_id == nodespace_from_id(uid)
        children_ids == {c \in NodespaceIds : S.allocated_nodespaces[c] = nodespace_id}
        S1 == DeleteChildNodespaces([S EXCEPT !.err = "ok"], children_ids)
        node_ids == {n \in DOMAIN S1.allocated_nodes : S1.allocated_node_parents[n] = nodespace_id}
        S2 == DeleteNodesOf(S1, node_ids)
    IN IF S1.err # "ok" THEN S1
       ELSE IF S2.err # "ok" THEN S2
       \* line 1164 raises after the name and the position are forgotten
       ELSE IF nodespace_id \notin DOMAIN S2.allocated_nodespaces
            THEN [S2 EXCEPT !.names = MapDel(S2.names, uid),
                            !.positions = MapDel(S2.positions, uid),
                            !.err = "IndexError",
                            !.ret = 0]
            ELSE [S2 EXCEPT !.names = MapDel(S2.names, uid),
                            !.positions = MapDel(S2.positions, uid),
                            !.allocated_nodespaces[nodespace_id] = 0,
                            !.last_allocated_nodespace = nodespace_id,
                            !.err = "ok",
                            !.ret = 0]


(***************************************************************************)
(* set_link_weight(source_node_uid, gate_type, target_node_uid, slot_type, *)
(* weight).  The cell is computed from the offsets stored for the two ids, *)
(* whether or not the ids are allocated; an index past the end of the      *)
(* matrix raises IndexError before anything is written.                    *)
(***************************************************************************)
SetLinkedFlags(flags, offset, weight) ==
    [e \in Elements |-> IF e \in offset..(offset + 6)
                        THEN (IF weight = 0 THEN 0 ELSE 1)
                        ELSE flags[e]]

\* a link written into the row of its source and the column of its target
SetLinkWeightSourceRow(S, source_node_uid, gate_type, target_node_uid, slot_type, weight) ==
    LET x == S.allocated_node_offsets[node_from_id(source_node_uid)]
                 + get_numerical_gate_type(gate_type)
        y == S.allocated_node_offsets[node_from_id(target_node_uid)]
                 + get_numerical_gate_type(slot_type)
    IN [S EXCEPT !.w = IF S.sparse THEN SetSparse(S.w, x, y, ToFloatX(S, weight))
                       ELSE SetDense(S.w, x, y, ToFloatX(S, weight)),
                 !.err = "ok", !.ret = 1]

set_link_weight(S, source_node_uid, gate_type, target_node_uid, slot_type, weight) ==
    LET source == node_from_id(source_node_uid)
        target == node_from_id(target_node_uid)
        ngt == get_numerical_gate_type(gate_type)
        nst == get_numerical_gate_type(slot_type)
        x == S.allocated_node_offsets[target] + nst
        y == S.allocated_node_offsets[source] + ngt
        S1 == [S EXCEPT !.w = IF S.sparse THEN SetSparse(S.w, x, y, ToFloatX(S, weight))
                              ELSE SetDense(S.w, x, y, ToFloatX(S, weight))]
        S2 == IF slot_type = "por" /\ S1.allocated_nodes[target] = PIPE
              THEN [S1 EXCEPT !.n_node_porlinked =
                       SetLinkedFlags(S1.n_node_porlinked,
                                      S1.allocated_node_offsets[target], weight)]
              ELSE S1
        S3 == IF slot_type = "ret" /\ S2.allocated_nodes[target] = PIPE
              THEN [S2 EXCEPT !.n_node_retlinked =
                       SetLinkedFlags(S2.n_node_retlinked,
                                      S2.allocated_node_offsets[target], weight)]
              ELSE S2
    IN IF x >= NoE \/ y >= NoE
       THEN [S EXCEPT !.err = "IndexError", !.ret = 0]
       ELSE [S3 EXCEPT !.err = "ok", !.ret = 1]

\* create_link(source, gate, target, slot, weight=1, certainty=1)
create_link(S, source_node_uid, gate_type, target_node_uid, slot_type, weight) ==
    set_link_weight(S, source_node_uid, gate_type, target_node_uid, slot_type, weight)

\* delete_link(source, gate, target, slot)
delete_link(S, source_node_uid, gate_type, target_node_uid, slot_type) ==
    set_link_weight(S, source_node_uid, gate_type, target_node_uid, slot_type, 0)

(***************************************************************************)
(* construct_links_dict(nodespace_uid=None): the loops visit the live      *)
(* source nodes in ascending order of id, the gates of a node's type, and  *)
(* the rows of the non-zero cells of the gate's column in ascending order. *)
(* The first exception ends the call.  nodespace_uid is NoUid for None.    *)
(***************************************************************************)
\* lines 1314-1316: the name of the slot at row index of w, looked up in
\* the slottypes of the Nodetype of the node that owns the row (a Python
\* list index: a negative number counts from the end, a number outside the
\* list raises IndexError).  A type without Nodetype has the standard
\* numbering; 0, the type of a free id, is no node type.
target_slot_type(S, index) ==
    LET target_id == S.allocated_elements_to_nodes[index]
        target_type == S.allocated_nodes[target_id]
        target_slot_numerical == index - S.allocated_node_offsets[target_id]
        list == IF target_type = PIPE THEN GateNames ELSE <<"gen">>
    IN IF target_type \notin 1..MAX_STD_NODETYPE
       THEN [err |-> "ValueError", ret |-> ""]
       ELSE IF slottypes(target_type) = {}
            THEN (IF target_slot_numerical \in 0..6
                  THEN [err |-> "ok", ret |-> get_string_gate_type(target_slot_numerical)]
                  ELSE [err |-> "ValueError", ret |-> ""])
       ELSE IF target_slot_numerical \in 0..(Len(list) - 1)
            THEN [err |-> "ok", ret |-> list[target_slot_numerical + 1]]
       ELSE IF target_slot_numerical \in (0 - Len(list))..(0 - 1)
            THEN [err |-> "ok", ret |-> list[Len(list) + target_slot_numerical + 1]]
       ELSE [err |-> "IndexError", ret |-> ""]

construct_links_dict(S, nodespace_uid) ==
    LET parent == IF nodespace_uid # NoUid THEN nodespace_from_id(nodespace_uid) ELSE 0
        \* the gates of the two outer loops, <<source_id, gate_type>>
        gates == {g \in LiveNodes(S) \X (0..6) :
                     g[2] < get_elements_per_type(S.allocated_nodes[g[1]])}
        column(g) == S.allocated_node_offsets[g[1]] + g[2]
        \* the non-zero cells of w, <<row, column>>
        nonzero == {p \in DOMAIN S.w : S.w[p] # 0}
        \* the cells of the inner loop that are not skipped by the continue,
        \* <<gate, index>>
        listed == {c \in UNION {{<<g, p[1]>> : p \in {q \in nonzero : q[2] = column(g)}} :
                                   g \in gates} :
                      ~ (/\ nodespace_uid # NoUid
                         /\ S.allocated_node_parents[c[1][1]] # parent
                         /\ S.allocated_node_parents[
                                S.allocated_elements_to_nodes[c[2]]] # parent)}
        \* the exceptions, each with its place in the order of the loops
        raised == {<<g[1], g[2], 0 - 1, "IndexError">> :
                      g \in {h \in gates : column(h) >= NoE}}
                  \cup {<<c[1][1], c[1][2], c[2], target_slot_type(S, c[2]).err>> :
                           c \in {d \in listed : target_slot_type(S, d[2]).err # "ok"}}
        Before(e, f) == \/ e[1] < f[1]
                        \/ e[1] = f[1] /\ e[2] < f[2]
                        \/ e[1] = f[1] /\ e[2] = f[2] /\ e[3] <= f[3]
        first == CHOOSE e \in raised : \A f \in raised : Before(e, f)
        linkuid(c) == UidString(node_to_id(c[1][1])) \o ":" \o get_string_gate_type(c[1][2])
                          \o ":" \o target_slot_type(S, c[2]).ret \o ":"
                          \o UidString(node_to_id(S.allocated_elements_to_nodes[c[2]]))
        \* data[linkuid] = linkdata: of the cells of one gate that give the same
        \* uid, the entry of the last one visited stays in the dict
        kept == {c \in listed : ~ \E d \in listed :
                                      d[1] = c[1] /\ d[2] > c[2] /\ linkuid(d) = linkuid(c)}
        linkdata(c) ==
            LET source_id == c[1][1]
                target_id == S.allocated_elements_to_nodes[c[2]]
                source_gate_type == get_string_gate_type(c[1][2])
            IN [uid |-> linkuid(c),
                weight |-> WAt(S.w, c[2], column(c[1])),
                certainty |-> 1,
                source_gate_name |-> source_gate_type,
                source_node_uid |-> node_to_id(source_id),
                target_slot_name |-> target_slot_type(S, c[2]).ret,
                target_node_uid |-> node_to_id(target_id)]
    IN IF raised # {}
       THEN [S EXCEPT !.err = first[4], !.ret = 0]
       ELSE [S EXCEPT !.err = "ok", !.ret = {linkdata(c) : c \in kept}]

\* the weights read for one link address from a links dict: the weight of
\* its entry, and 0 when the dict has no entry for it (w is the only store
\* of the links, and a cell that holds 0 is no link)
LinkWeights(data, source_node_uid, gate_type, target_node_uid, slot_type) ==
    LET entries == {m \in data : /\ m.source_node_uid = source_node_uid
                                 /\ m.source_gate_name = gate_type
                                 /\ m.target_node_uid = target_node_uid
                                 /\ m.target_slot_name = slot_type}
    IN IF entries = {} THEN {0} ELSE {m.weight : m \in entries}

(***************************************************************************)
(* Node groups: group_nodes_by_ids stores one offset for every uid of the  *)
(* list it is given, in ascending order of the ids, an id as often as the  *)
(* list holds a uid with that number; set_link_weights assigns the block   *)
(* of w between two groups.                                                *)
(***************************************************************************)
\* sorted(ids) of a list of numbers
RECURSIVE sorted(_)
sorted(ids) ==
    IF ids = <<>> THEN <<>>
    ELSE LET m == Min({ids[k] : k \in 1..Len(ids)})
             i == Min({k \in 1..Len(ids) : ids[k] = m})
         IN <<m>> \o sorted(SubSeq(ids, 1, i - 1) \o SubSeq(ids, i + 1, Len(ids)))

\* a list of the uids of a set, by number and the nodes first
RECURSIVE ListOf(_)
ListOf(uids) ==
    IF uids = {} THEN <<>>
    ELSE LET m == Min({uid[2] : uid \in uids})
             first == IF <<"n", m>> \in uids THEN <<"n", m>> ELSE <<"s", m>>
         IN <<first>> \o ListOf(uids \ {first})

group_nodes_by_ids(S, node_ids, group_name) ==
    LET ids == sorted([k \in 1..Len(node_ids) |-> node_from_id(node_ids[k])])
    IN IF \E k \in 1..Len(ids) : ids[k] \notin DOMAIN S.allocated_node_offsets
       THEN [S EXCEPT !.err = "IndexError", !.ret = 0]
       ELSE [S EXCEPT !.nodegroups =
                          MapPut(S.nodegroups, group_name,
                                 [k \in 1..Len(ids) |-> S.allocated_node_offsets[ids[k]]]),
                      !.err = "ok", !.ret = 0]

\* name.startswith(node_name_prefix)
StartsWith(name, node_name_prefix) ==
    /\ Len(node_name_prefix) <= Len(name)
    /\ SubSeq(name, 1, Len(node_name_prefix)) = node_name_prefix

\* group_nodes_by_names(nodespace, node_name_prefix); nodespace is NoUid for
\* None.  The list holds the uid of every entry of names that passes the
\* two tests, of a node or of a nodespace; the order of the dict is not kept,
\* since group_nodes_by_ids sorts the ids of the list.
group_nodes_by_names(S, nodespace, node_name_prefix) ==
    LET named == {uid \in DOMAIN S.names : StartsWith(S.names[uid], node_name_prefix)}
    IN IF /\ nodespace # NoUid
          /\ \E uid \in named : node_from_id(uid) \notin DOMAIN S.allocated_node_parents
       THEN [S EXCEPT !.err = "IndexError", !.ret = 0]
       ELSE group_nodes_by_ids(
                S,
                ListOf({uid \in named :
                           \/ nodespace = NoUid
                           \/ S.allocated_node_parents[node_from_id(uid)]
                                 = nodespace_from_id(nodespace)}),
                node_name_prefix)

ungroup_nodes(S, group) ==
    [S EXCEPT !.nodegroups = MapDel(S.nodegroups, group), !.err = "ok", !.ret = 0]

\* set_link_weights(group_from, group_to, new_w) with new_w[i][j] = v
set_link_weights(S, group_from, group_to, v) ==
    IF group_from \notin DOMAIN S.nodegroups \/ group_to \notin DOMAIN S.nodegroups
    THEN [S EXCEPT !.err = "KeyError", !.ret = 0]
    ELSE LET grp_from == S.nodegroups[group_from]
             grp_to == S.nodegroups[group_to]
             cells == {<<grp_to[i], grp_from[j]>> :
                          i \in 1..Len(grp_to), j \in 1..Len(grp_from)}
         IN [S EXCEPT !.w = [p \in (DOMAIN S.w) \cup cells |->
                                IF p \in cells THEN ToFloatX(S, v) ELSE S.w[p]],
                      !.err = "ok", !.ret = 0]

(***************************************************************************)
(* set_sensors_and_actuator_feedback_to_values: the GEN element of every   *)
(* sensor of a datasource and of every actor of a datatarget is assigned   *)
(* the value given for it.  A value map is a dict: a sequence of pairs of  *)
(* a key and a value, in the order of the dict, with distinct keys.  The   *)
(* assignments are made key by key, the datasources first, so that an      *)
(* element that several keys reach keeps the value of the last of them.    *)
(***************************************************************************)
RECURSIVE WriteValues(_, _, _, _)
WriteValues(S, a_array, map, value_map) ==
    IF value_map = <<>> THEN a_array
    ELSE LET key == value_map[1][1]
             value == value_map[1][2]
             uids == IF key \in DOMAIN map THEN map[key] ELSE <<>>
             cells == {S.allocated_node_offsets[uids[k]] + GEN : k \in 1..Len(uids)}
         IN WriteValues(S,
                        [e \in Elements |->
                            IF e \in cells THEN ToFloatX(S, value) ELSE a_array[e]],
                        map, Tail(value_map))

\* a write that leaves the elements of the sensors as they are
SetActuatorFeedbackOnly(S, datasource_to_value_map, datatarget_to_value_map) ==
    [S EXCEPT !.a = WriteValues(S, S.a, S.actuatormap, datatarget_to_value_map),
              !.err = "ok", !.ret = 0]

set_sensors_and_actuator_feedback_to_values(S, datasource_to_value_map, datatarget_to_value_map) ==
    [S EXCEPT !.a = WriteValues(S, WriteValues(S, S.a, S.sensormap, datasource_to_value_map),
                                S.actuatormap, datatarget_to_value_map),
              !.err = "ok", !.ret = 0]

(***************************************************************************)
(* The step operators (theano_stepoperators.py).  Propagate: a <- w . a.   *)
(* Calculate: every element of a live node gets its gate function, the     *)
(* identity, applied to its activation, then threshold, amplification,     *)
(* gate factor and the clamp to [g_min, g_max] = [0, 1].                   *)
(***************************************************************************)
RECURSIVE Sum(_, _)
Sum(f, D) ==
    IF D = {} THEN 0
    ELSE LET d == CHOOSE x \in D : TRUE IN f[d] + Sum(f, D \ {d})

Propagate(S) ==
    [S EXCEPT !.a = [x \in Elements |->
                        ToFloatX(S, Sum([y \in Elements |->
                                            (WAt(S.w, x, y) * S.a[y]) \div One],
                                        Elements))]]

GateFactor(S, e) ==
    IF S.allocated_elements_to_activators[e] = 0 THEN One
    ELSE S.a[S.allocated_elements_to_activators[e]]

Clamp(v) == IF v < 0 THEN 0 ELSE IF v > One THEN One ELSE v

Calculate(S) ==
    [S EXCEPT !.a = [e \in Elements |->
                        IF S.allocated_elements_to_nodes[e] = 0 THEN S.a[e]
                        ELSE IF GateFactor(S, e) = 0 THEN 0
                        ELSE Clamp(ToFloatX(S, (Clamp(S.a[e]) * GateFactor(S, e))
                                                   \div One))]]

\* the priority of a step operator: Propagate runs before Calculate
OperatorPriority(operator) == IF operator = "Propagate" THEN 0 ELSE 1

\* the two operators sorted by descending priority
StepoperatorsDescending ==
    IF OperatorPriority("Calculate") > OperatorPriority("Propagate")
    THEN <<"Calculate", "Propagate">>
    ELSE <<"Propagate", "Calculate">>

\* initialize_stepoperators: the two operators, sorted by priority (a stable sort)
stepoperators ==
    IF OperatorPriority("Calculate") < OperatorPriority("Propagate")
    THEN <<"Calculate", "Propagate">>
    ELSE <<"Propagate", "Calculate">>

\* the position of the thread that runs operator number i of the list, or
\* the increment after the last one
OperatorPc(i) ==
    IF i > Len(stepoperators) THEN "increment"
    ELSE IF stepoperators[i] = "Propagate" THEN "propagate" ELSE "calculate"

OperatorIndex(operator) == CHOOSE i \in 1..Len(stepoperators) : stepoperators[i] = operator

\* operator.execute(self, None, self.netapi)
ExecuteOperator(S, operator) ==
    IF operator = "Propagate" THEN Propagate(S) ELSE Calculate(S)

\* step, run without interruption: the operators in the order of the list,
\* then the increment of the step counter
step(S) ==
    [ExecuteOperator(ExecuteOperator(S, stepoperators[1]), stepoperators[2])
        EXCEPT !.current_step = S.current_step + 1, !.err = "ok", !.ret = 0]

\* get_node(uid).get_gate(gate_type).activation = value
set_gate_activation(S, uid, gate_type, value) ==
    [S EXCEPT !.a[S.allocated_node_offsets[node_from_id(uid)]
                    + get_numerical_gate_type(gate_type)] = ToFloatX(S, value),
              !.err = "ok", !.ret = 0]

(***************************************************************************)
(* read_actuators: for every datatarget of actuatormap the sum of the      *)
(* activations at the GEN elements of the ids listed for it.               *)
(***************************************************************************)
RECURSIVE SumSeq(_)
SumSeq(q) == IF q = <<>> THEN 0 ELSE Head(q) + SumSeq(Tail(q))

read_actuators(S) ==
    [datatarget \in DOMAIN S.actuatormap |->
        SumSeq([k \in 1..Len(S.actuatormap[datatarget]) |->
                   S.a[S.allocated_node_offsets[S.actuatormap[datatarget][k]] + GEN]])]

(***************************************************************************)
(* The Gate of node.py.  Activations and gate parameters are fixed-point   *)
(* numbers with GOne standing for 1.0, so that the products and the halving *)
(* of the decay step are exact for the values the specifications draw.     *)
(***************************************************************************)
GOne == 8 * One

max(x, y) == IF x >= y THEN x ELSE y
min(x, y) == IF x <= y THEN x ELSE y

GateDefaults ==
    [minimum |-> -GOne, maximum |-> GOne, certainty |-> GOne,
     amplification |-> GOne, threshold |-> 0, decay |-> 0]

\* Gate.__init__: the given parameters over the defaults, activation 0
Gate(type, parameters) ==
    [type |-> type,
     activation |-> 0,
     parameters |-> [k \in (DOMAIN GateDefaults) \cup (DOMAIN parameters) |->
                        IF k \in DOMAIN parameters THEN parameters[k]
                        ELSE GateDefaults[k]]]

\* the linear threshold function of a gate without a gatefunction of its own
GateLinear(g, gate_factor, input_activation) ==
    (((max(input_activation, g.parameters.threshold) * g.parameters.amplification)
        \div GOne) * gate_factor) \div GOne

GateDecay(g, activation) ==
    IF g.parameters.decay # 0
    THEN IF activation < 0
         THEN min(activation, (g.activation * (GOne - g.parameters.decay)) \div GOne)
         ELSE max(activation, (g.activation * (GOne - g.parameters.decay)) \div GOne)
    ELSE activation

GateClamp(g, activation) ==
    min(g.parameters.maximum, max(g.parameters.minimum, activation))

\* Node.set_gate_parameters: the gate holds the dict as it was given
set_gate_parameters(g, parameters) == [g EXCEPT !.parameters = parameters]

\* the parameters that the gate function reads with self.parameters[...]
\* when the gate is open
GateFunctionKeys == {"threshold", "amplification", "decay", "maximum", "minimum"}

\* Gate.gate_function raises KeyError: the gate is open and one of the
\* parameters it reads is not in the dict
GateFunctionRaises(g, acts) ==
    /\ g.type \in DOMAIN acts
    /\ acts[g.type] # 0
    /\ ~ (GateFunctionKeys \subseteq DOMAIN g.parameters)

\* a gate function that runs the whole pipeline with a factor of 0
GateFunctionNoShortCircuit(g, acts, input_activation) ==
    LET gate_factor == IF g.type \in DOMAIN acts THEN acts[g.type] ELSE 0
    IN IF ~ (GateFunctionKeys \subseteq DOMAIN g.parameters) THEN g
       ELSE [g EXCEPT !.activation =
                GateClamp(g, GateDecay(g, GateLinear(g, gate_factor, input_activation)))]

\* Gate.gate_function: the gate after the call.  acts is the activators
\* dict of the nodespace of the gate's node.  The activation is assigned
\* as the last statement, so a call that raises leaves the gate as it was.
gate_function(g, acts, input_activation) ==
    LET gate_factor == IF g.type \in DOMAIN acts THEN acts[g.type] ELSE 0
    IN IF gate_factor = 0
       THEN [g EXCEPT !.activation = 0]
       ELSE IF GateFunctionRaises(g, acts) THEN g
       ELSE [g EXCEPT !.activation =
                GateClamp(g, GateDecay(g, GateLinear(g, gate_factor, input_activation)))]

\* the node function of an Activator node
ActivatorNodeFunction(acts, type, activation) == MapPut(acts, type, activation)

\* no file was written: no metadata file of any name, no data file
NoDisk == [meta |-> [f \in {} |-> {}], data |-> <<>>]

(***************************************************************************)
(* The state after TheanoNodenet.__init__: empty arenas, a zero weight     *)
(* matrix, and the Root nodespace created with uid s1 and no parent.       *)
(***************************************************************************)
Unlocked == "none"

\* the thread that runs the steps and the threads that call the mutators
Stepper == "stepper"
Callers == {"t1", "t2"}
Threads == {Stepper} \cup Callers

IdleThread ==
    [pc |-> "idle", op |-> "", nodetype |-> "", param |-> NoParam,
     id |-> 0, offset |-> 0, err |-> "ok", ret |-> 0,
     cursor |-> 0, source |-> NoUid, x |-> 0, y |-> 0,
     held |-> "none", list |-> <<>>, index |-> 0]

NoCall ==
    [op |-> "init", nodetype |-> "", nodespace |-> NoUid, uid |-> NoUid,
     source |-> NoUid, target |-> NoUid, position |-> NoPosition,
     param |-> NoParam, err |-> "ok", ret |-> 0]

\* the instance that TheanoNodenet.__init__ leaves, with room for non - 1 nodes
FreshNet(sp, pr, non) ==
    [allocated_nodes |-> [i \in 0..(non - 1) |-> 0],
     allocated_node_offsets |-> [i \in 0..(non - 1) |-> 0],
     allocated_node_parents |-> [i \in 0..(non - 1) |-> 0],
     allocated_elements_to_nodes |-> [e \in Elements |-> 0],
     allocated_nodespaces |-> [i \in NodespaceIds |-> 0],
     allocated_nodespaces_activators |-> [d \in Dirs |-> [i \in NodespaceIds |-> 0]],
     allocated_elements_to_activators |-> [e \in Elements |-> 0],
     last_allocated_node |-> 0,
     last_allocated_offset |-> 0,
     last_allocated_nodespace |-> 1,
     sparse |-> sp,
     precision |-> pr,
     w |-> EmptyW(sp),
     n_function_selector |-> [e \in Elements |-> 0],
     n_node_porlinked |-> [e \in Elements |-> 0],
     n_node_retlinked |-> [e \in Elements |-> 0],
     sensormap |-> [k \in {} |-> <<>>],
     inverted_sensor_map |-> [k \in {} |-> ""],
     actuatormap |-> [k \in {} |-> <<>>],
     inverted_actuator_map |-> [k \in {} |-> ""],
     key_order |-> [sensormap |-> <<>>, actuatormap |-> <<>>],
     names |-> [k \in {nodespace_to_id(1)} |-> "Root"],
     positions |-> [k \in {} |-> <<>>],
     nodegroups |-> [k \in {} |-> <<>>],
     a |-> [e \in Elements |-> 0],
     current_step |-> 0,
     err |-> "ok",
     ret |-> 0]

\* the dicts that the class TheanoNodenet holds as class attributes and that
\* __init__ does not assign: an instance reads them through the class
ClassMaps(S) ==
    [sensormap |-> S.sensormap, inverted_sensor_map |-> S.inverted_sensor_map,
     actuatormap |-> S.actuatormap, inverted_actuator_map |-> S.inverted_actuator_map]

\* no element scan is running
NoScan ==
    [pc |-> "idle", allocated_elements_to_nodes |-> [e \in Elements |-> 0],
     last_allocated_offset |-> 0, number_of_elements |-> 0, i |-> 0,
     has_restarted_from_zero |-> FALSE, offset |-> 0, wraps |-> 0]

ConstructedSized(sp, pr, non) ==
    /\ allocated_nodes = FreshNet(sp, pr, non).allocated_nodes
    /\ allocated_node_offsets = FreshNet(sp, pr, non).allocated_node_offsets
    /\ allocated_node_parents = FreshNet(sp, pr, non).allocated_node_parents
    /\ allocated_elements_to_nodes = FreshNet(sp, pr, non).allocated_elements_to_nodes
    /\ allocated_nodespaces = FreshNet(sp, pr, non).allocated_nodespaces
    /\ allocated_nodespaces_activators = FreshNet(sp, pr, non).allocated_nodespaces_activators
    /\ allocated_elements_to_activators = FreshNet(sp, pr, non).allocated_elements_to_activators
    /\ last_allocated_node = FreshNet(sp, pr, non).last_allocated_node
    /\ last_allocated_offset = FreshNet(sp, pr, non).last_allocated_offset
    /\ last_allocated_nodespace = FreshNet(sp, pr, non).last_allocated_nodespace
    /\ sparse = FreshNet(sp, pr, non).sparse
    /\ precision = FreshNet(sp, pr, non).precision
    /\ w = FreshNet(sp, pr, non).w
    /\ n_function_selector = FreshNet(sp, pr, non).n_function_selector
    /\ n_node_porlinked = FreshNet(sp, pr, non).n_node_porlinked
    /\ n_node_retlinked = FreshNet(sp, pr, non).n_node_retlinked
    /\ sensormap = FreshNet(sp, pr, non).sensormap
    /\ inverted_sensor_map = FreshNet(sp, pr, non).inverted_sensor_map
    /\ actuatormap = FreshNet(sp, pr, non).actuatormap
    /\ inverted_actuator_map = FreshNet(sp, pr, non).inverted_actuator_map
    /\ key_order = FreshNet(sp, pr, non).key_order
    /\ names = FreshNet(sp, pr, non).names
    /\ positions = FreshNet(sp, pr, non).positions
    /\ nodegroups = FreshNet(sp, pr, non).nodegroups
    /\ a = FreshNet(sp, pr, non).a
    /\ current_step = FreshNet(sp, pr, non).current_step
    /\ netlock = Unlocked
    /\ call = NoCall
    /\ ncalls = 0
    /\ threads = [t \in Threads |-> IdleThread]
    /\ disk = NoDisk
    /\ record_storage = <<>>
    /\ other = ClassMaps(FreshNet(sp, pr, non))
    /\ scan = NoScan

ConstructedEngine(sp, pr) == ConstructedSized(sp, pr, NoN)

\* the engine, and a gate of a Register in a nodespace without activators
Constructed(sp, pr) ==
    /\ ConstructedEngine(sp, pr)
    /\ gate = Gate("gen", GateDefaults)
    /\ activators = [t \in {} |-> 0]

Init == Constructed(TRUE, "64")

NodeUids == {node_to_id(i) : i \in 1..(NoN - 1)}
NodespaceUids == {nodespace_to_id(i) : i \in 1..(NoNS - 1)}
LiveNodeUids == {node_to_id(i) : i \in LiveNodes(Net) \ {0}}
LiveNodespaceUids == {nodespace_to_id(i) : i \in {j \in 1..(NoNS - 1) : is_nodespace(Net, j)}}

(***************************************************************************)
(* The public calls, made one at a time by a single caller.                *)
(***************************************************************************)
CreatePositionedNodeCall(nodetype, nodespace_uid, position, name, uid, param) ==
    LET S == create_node(Net, nodetype, nodespace_uid, position, name, uid, param)
    IN /\ Install(S)
       /\ call' = [NoCall EXCEPT !.op = "create_node", !.nodetype = nodetype,
                                 !.nodespace = nodespace_uid, !.uid = uid,
                                 !.position = position,
                                 !.param = param, !.err = S.err, !.ret = S.ret]
       /\ UNCHANGED <<netlock, threads>>

CreateNamedNodeCall(nodetype, nodespace_uid, name, uid, param) ==
    CreatePositionedNodeCall(nodetype, nodespace_uid, NoPosition, name, uid, param)

CreateNodeCall(nodetype, nodespace_uid, uid, param) ==
    CreateNamedNodeCall(nodetype, nodespace_uid, NoName, uid, param)

DeleteNodeCall(uid) ==
    LET S == delete_node(Net, uid)
    IN /\ Install(S)
       /\ call' = [NoCall EXCEPT !.op = "delete_node", !.uid = uid, !.err = S.err]
       /\ UNCHANGED <<netlock, threads>>

CreateNodespaceCall(parent_uid) ==
    LET S == create_nodespace(Net, parent_uid, NoPosition, NoName, NoUid)
    IN /\ Install(S)
       /\ call' = [NoCall EXCEPT !.op = "create_nodespace", !.nodespace = parent_uid,
                                 !.err = S.err, !.ret = S.ret]
       /\ UNCHANGED <<netlock, threads>>

DeleteNodespaceCall(uid) ==
    LET S == delete_nodespace(Net, uid)
    IN /\ Install(S)
       /\ call' = [NoCall EXCEPT !.op = "delete_nodespace", !.nodespace = uid,
                                 !.err = S.err]
       /\ UNCHANGED <<netlock, threads>>

(***************************************************************************)
(* Specification of the arena: nodes of one and of seven elements are      *)
(* created without uid and deleted; nodespaces are created below live      *)
(* nodespaces while the id they get is at most MaxArenaNodespaceId, and    *)
(* deleted.                                                                *)
(***************************************************************************)
ArenaCreateNode ==
    \E nodetype \in {"Register", "Pipe"}, ns \in LiveNodespaceUids :
        CreateNodeCall(nodetype, ns, NoUid, NoParam) /\ UNCHANGED ncalls

ArenaDeleteNode == \E uid \in LiveNodeUids : DeleteNodeCall(uid) /\ UNCHANGED ncalls

ArenaCreateNodespace ==
    \E parent \in LiveNodespaceUids :
        /\ FindFreeNodespaceId(Net) <= MaxArenaNodespaceId
        /\ CreateNodespaceCall(parent) /\ UNCHANGED ncalls

ArenaDeleteNodespace ==
    \E uid \in LiveNodespaceUids : DeleteNodespaceCall(uid) /\ UNCHANGED ncalls

Next ==
    \/ ArenaCreateNode
    \/ ArenaDeleteNode
    \/ ArenaCreateNodespace
    \/ ArenaDeleteNodespace

Spec == Init /\ [][Next]_vars

(***************************************************************************)
(* Specification of the arena with uids: as above, and create_node is also *)
(* called with an explicit uid, free or live.  The number of calls is      *)
(* bounded.                                                                *)
(***************************************************************************)
UidCreateNode ==
    \E nodetype \in {"Register", "Pipe"}, ns \in LiveNodespaceUids,
       uid \in {NoUid} \cup NodeUids :
        CreateNodeCall(nodetype, ns, uid, NoParam) /\ ncalls < MaxCalls /\ ncalls' = ncalls + 1

UidDeleteNode == \E uid \in NodeUids : DeleteNodeCall(uid) /\ ncalls < MaxCalls /\ ncalls' = ncalls + 1

UidCreateNodespace ==
    \E parent \in LiveNodespaceUids :
        /\ FindFreeNodespaceId(Net) <= MaxArenaNodespaceId
        /\ CreateNodespaceCall(parent) /\ ncalls < MaxCalls /\ ncalls' = ncalls + 1

UidDeleteNodespace == \E uid \in NodespaceUids : DeleteNodespaceCall(uid) /\ ncalls < MaxCalls /\ ncalls' = ncalls + 1

NextUid ==
    \/ UidCreateNode
    \/ UidDeleteNode
    \/ UidCreateNodespace
    \/ UidDeleteNodespace

SpecUid == Init /\ [][NextUid]_vars


SetLinkWeightCall(source_node_uid, gate_type, target_node_uid, slot_type, weight) ==
    LET S == set_link_weight(Net, source_node_uid, gate_type, target_node_uid,
                             slot_type, weight)
    IN /\ Install(S)
       /\ call' = [NoCall EXCEPT !.op = "set_link_weight", !.err = S.err]
       /\ UNCHANGED <<netlock, threads>>

CreateLinkCall(source_node_uid, gate_type, target_node_uid, slot_type, weight) ==
    LET S == create_link(Net, source_node_uid, gate_type, target_node_uid,
                         slot_type, weight)
    IN /\ Install(S)
       /\ call' = [NoCall EXCEPT !.op = "create_link", !.err = S.err]
       /\ UNCHANGED <<netlock, threads>>

DeleteLinkCall(source_node_uid, gate_type, target_node_uid, slot_type) ==
    LET S == delete_link(Net, source_node_uid, gate_type, target_node_uid, slot_type)
    IN /\ Install(S)
       /\ call' = [NoCall EXCEPT !.op = "delete_link", !.err = S.err]
       /\ UNCHANGED <<netlock, threads>>

GroupNodesByIdsCall(node_ids, group_name) ==
    LET S == group_nodes_by_ids(Net, node_ids, group_name)
    IN /\ Install(S)
       /\ call' = [NoCall EXCEPT !.op = "group_nodes_by_ids", !.err = S.err]
       /\ UNCHANGED <<netlock, threads>>

GroupNodesByNamesCall(nodespace, node_name_prefix) ==
    LET S == group_nodes_by_names(Net, nodespace, node_name_prefix)
    IN /\ Install(S)
       /\ call' = [NoCall EXCEPT !.op = "group_nodes_by_names", !.nodespace = nodespace,
                                 !.err = S.err]
       /\ UNCHANGED <<netlock, threads>>

UngroupNodesCall(group) ==
    LET S == ungroup_nodes(Net, group)
    IN /\ Install(S)
       /\ call' = [NoCall EXCEPT !.op = "ungroup_nodes", !.err = S.err]
       /\ UNCHANGED <<netlock, threads>>

SetLinkWeightsCall(group_from, group_to, v) ==
    LET S == set_link_weights(Net, group_from, group_to, v)
    IN /\ Install(S)
       /\ call' = [NoCall EXCEPT !.op = "set_link_weights", !.err = S.err]
       /\ UNCHANGED <<netlock, threads>>

\* the gate and slot names the calls are made with, and those of them the
\* node of a uid has
LinkNames == {"gen", "por"}

GatesOf(uid) == gatetypes(allocated_nodes[node_from_id(uid)]) \cap LinkNames

SlotsOf(uid) == slottypes(allocated_nodes[node_from_id(uid)]) \cap LinkNames

(***************************************************************************)
(* Specification of the links: nodes are created in the Root nodespace of  *)
(* a net built in sparse or in dense mode and with either float width, and *)
(* the weight of links between                                             *)
(* live nodes is set.  The links are those of the nodes n1 and n2, and the *)
(* number of set_link_weight calls is bounded.                             *)
(***************************************************************************)
InitLinks == \E sp \in BOOLEAN, pr \in {"32", "64"} : Constructed(sp, pr)

LinkPair == {node_to_id(1), node_to_id(2)} \cap NodeUids

LinksCreateNode ==
    \E nodetype \in {"Register", "Pipe"} :
        /\ LiveNodeUids # LinkPair
        /\ CreateNodeCall(nodetype, nodespace_to_id(1), NoUid, NoParam) /\ UNCHANGED ncalls

LinksSetLinkWeight ==
    \E s \in LiveNodeUids, t \in LiveNodeUids :
        \E g \in GatesOf(s), sl \in SlotsOf(t), weight \in Weights :
            SetLinkWeightCall(s, g, t, sl, weight) /\ ncalls < MaxLinkCalls /\ ncalls' = ncalls + 1

NextLinks ==
    \/ LinksCreateNode
    \/ LinksSetLinkWeight

SpecLinks == InitLinks /\ [][NextLinks]_vars

(***************************************************************************)
(* Specification of the link flags: nodes are created in the Root          *)
(* nodespace and links between live nodes are set, created and deleted.    *)
(* The number of calls is bounded.                                         *)
(***************************************************************************)
FlagsCreateNode ==
    \E nodetype \in {"Register", "Pipe"} :
        CreateNodeCall(nodetype, nodespace_to_id(1), NoUid, NoParam) /\ ncalls < MaxFlagCalls /\ ncalls' = ncalls + 1

FlagsSetLinkWeight ==
    \E s \in LiveNodeUids, t \in LiveNodeUids :
        \E g \in GatesOf(s), sl \in SlotsOf(t), weight \in Weights :
            SetLinkWeightCall(s, g, t, sl, weight) /\ ncalls < MaxFlagCalls /\ ncalls' = ncalls + 1

FlagsCreateLink ==
    \E s \in LiveNodeUids, t \in LiveNodeUids :
        \E g \in GatesOf(s), sl \in SlotsOf(t) :
            CreateLinkCall(s, g, t, sl, One) /\ ncalls < MaxFlagCalls /\ ncalls' = ncalls + 1

FlagsDeleteLink ==
    \E s \in LiveNodeUids, t \in LiveNodeUids :
        \E g \in GatesOf(s), sl \in SlotsOf(t) :
            DeleteLinkCall(s, g, t, sl) /\ ncalls < MaxFlagCalls /\ ncalls' = ncalls + 1

NextFlags ==
    \/ FlagsCreateNode
    \/ FlagsSetLinkWeight
    \/ FlagsCreateLink
    \/ FlagsDeleteLink

SpecFlags == Init /\ [][NextFlags]_vars

(***************************************************************************)
(* Specification of the link protocol: nodes are created and deleted, the  *)
(* Root nodespace is deleted, links between live nodes are set and         *)
(* deleted, live nodes are grouped by name and by lists of uids, in which *)
(* a uid may occur twice, groups are removed and the weights between two   *)
(* groups are set.  A node is created without a name, with one of two      *)
(* names of which one is a prefix of the other, or with the name Root,     *)
(* which the Root nodespace has from the construction on in the dict that  *)
(* also holds the names of the nodes.  The number of calls is bounded.     *)
(***************************************************************************)
GroupNames == {"A", "B"}

NodeNames == {"A", "AB"}

\* the longest list of uids that a call of group_nodes_by_ids is made with
MaxGroupLen == 2

\* the non-empty lists of uids of a set, a uid any number of times
UidLists(uids) == UNION {[1..n -> uids] : n \in 1..MaxGroupLen}

ProtoCreateNode ==
    \E nodetype \in {"Register", "Pipe"}, name \in {NoName, "Root"} \cup NodeNames :
        CreateNamedNodeCall(nodetype, nodespace_to_id(1), name, NoUid, NoParam) /\ ncalls < MaxProtoCalls /\ ncalls' = ncalls + 1

ProtoDeleteNode ==
    \E uid \in LiveNodeUids : DeleteNodeCall(uid) /\ ncalls < MaxProtoCalls /\ ncalls' = ncalls + 1

ProtoDeleteNodespace ==
    DeleteNodespaceCall(nodespace_to_id(1)) /\ ncalls < MaxProtoCalls /\ ncalls' = ncalls + 1

ProtoSetLinkWeight ==
    \E s \in LiveNodeUids, t \in LiveNodeUids :
        \E g \in GatesOf(s), sl \in SlotsOf(t), weight \in Weights :
            SetLinkWeightCall(s, g, t, sl, weight) /\ ncalls < MaxProtoCalls /\ ncalls' = ncalls + 1

ProtoDeleteLink ==
    \E s \in LiveNodeUids, t \in LiveNodeUids :
        \E g \in GatesOf(s), sl \in SlotsOf(t) :
            DeleteLinkCall(s, g, t, sl) /\ ncalls < MaxProtoCalls /\ ncalls' = ncalls + 1

ProtoGroupNodesByIds ==
    \E node_ids \in UidLists(LiveNodeUids), group_name \in GroupNames :
        GroupNodesByIdsCall(node_ids, group_name) /\ ncalls < MaxProtoCalls /\ ncalls' = ncalls + 1

ProtoGroupNodesByNames ==
    \E nodespace \in {NoUid, nodespace_to_id(1)}, node_name_prefix \in NodeNames \cup {"Root"} :
        GroupNodesByNamesCall(nodespace, node_name_prefix) /\ ncalls < MaxProtoCalls /\ ncalls' = ncalls + 1

ProtoUngroupNodes ==
    \E group \in GroupNames \cup NodeNames \cup {"Root"} :
        UngroupNodesCall(group) /\ ncalls < MaxProtoCalls /\ ncalls' = ncalls + 1

ProtoSetLinkWeights ==
    \E group_from \in DOMAIN nodegroups, group_to \in DOMAIN nodegroups, v \in Weights :
        SetLinkWeightsCall(group_from, group_to, v) /\ ncalls < MaxProtoCalls /\ ncalls' = ncalls + 1

NextProto ==
    \/ ProtoCreateNode
    \/ ProtoDeleteNode
    \/ ProtoDeleteNodespace
    \/ ProtoSetLinkWeight
    \/ ProtoDeleteLink
    \/ ProtoGroupNodesByIds
    \/ ProtoGroupNodesByNames
    \/ ProtoUngroupNodes
    \/ ProtoSetLinkWeights

SpecProto == Init /\ [][NextProto]_vars


(***************************************************************************)
(* Specification of the threads: one thread runs steps, two threads call   *)
(* create_node, set_link_weight and the sensor write.  step takes the lock *)
(* around the operators and the increment of the step counter; the other   *)
(* methods do not take it, and a thread can be scheduled between any two   *)
(* of their statements that read or write the engine: an action of a       *)
(* caller is one such statement, named by its line, and what the thread    *)
(* has read so far is kept in its record.  The numbers of calls and of     *)
(* steps are bounded.                                                      *)
(***************************************************************************)
ThreadStep(t, rec) == threads' = [threads EXCEPT ![t] = rec]

\* step: user_prompt = None and the snapshot of the world adapter
StepSnapshot ==
    /\ threads[Stepper].pc = "idle"
    /\ current_step < MaxSteps
    /\ ThreadStep(Stepper, [IdleThread EXCEPT !.pc = "lock", !.op = "step"])
    /\ UNCHANGED <<extvars, netvars, netlock, call, ncalls>>

\* with self.netlock:
StepAcquire ==
    /\ threads[Stepper].pc = "lock"
    /\ netlock = Unlocked
    /\ netlock' = Stepper
    /\ ThreadStep(Stepper, [threads[Stepper] EXCEPT !.pc = OperatorPc(1)])
    /\ UNCHANGED <<extvars, netvars, call, ncalls>>

StepPropagate ==
    /\ threads[Stepper].pc = "propagate"
    /\ Install(Propagate(Net))
    /\ ThreadStep(Stepper, [threads[Stepper] EXCEPT
                                !.pc = OperatorPc(OperatorIndex("Propagate") + 1)])
    /\ UNCHANGED <<netlock, call, ncalls>>

StepCalculate ==
    /\ threads[Stepper].pc = "calculate"
    /\ Install(Calculate(Net))
    /\ ThreadStep(Stepper, [threads[Stepper] EXCEPT
                                !.pc = OperatorPc(OperatorIndex("Calculate") + 1)])
    /\ UNCHANGED <<netlock, call, ncalls>>

\* a step that ends without counting
StepIncrementLost ==
    /\ threads[Stepper].pc = "increment"
    /\ netlock' = Unlocked
    /\ ThreadStep(Stepper, [threads[Stepper] EXCEPT !.pc = "idle"])
    /\ UNCHANGED <<extvars, netvars, call, ncalls>>

\* self.__step += 1 and the end of the with block
StepIncrement ==
    /\ threads[Stepper].pc = "increment"
    /\ Install([Net EXCEPT !.current_step = current_step + 1])
    /\ netlock' = Unlocked
    /\ ThreadStep(Stepper, [threads[Stepper] EXCEPT !.pc = "idle"])
    /\ UNCHANGED <<call, ncalls>>

\* create_node, line 872: the node cursor is read once, for the range of the
\* scan
CallerCreateNodeReadNodeCursor(t) ==
    \E nodetype \in {"Register", "Sensor"} :
        /\ threads[t].pc = "idle"
        /\ ncalls < MaxThreadCalls
        /\ ncalls' = ncalls + 1
        /\ ThreadStep(t, [IdleThread EXCEPT !.pc = "scan_id",
                                            !.op = "create_node",
                                            !.nodetype = nodetype,
                                            !.param = IF nodetype = "Sensor"
                                                      THEN "ds" ELSE NoParam,
                                            !.cursor = last_allocated_node])
        /\ UNCHANGED <<extvars, netvars, netlock, call>>

\* create_node, lines 873-886: the scan for a free id from the cursor that was
\* read.  No entry is freed while these threads run, so the entries the scan
\* passes are still taken when it ends; entry 0 is free throughout, so the
\* second range finds nothing above 0 whatever the cursor is by then.
CallerCreateNodeScanId(t) ==
    LET id == FindFreeNodeId([Net EXCEPT !.last_allocated_node = threads[t].cursor])
    IN /\ threads[t].pc = "scan_id"
       /\ ThreadStep(t, IF id < 1
                        THEN [threads[t] EXCEPT !.pc = "idle",
                                                !.err = "MemoryError: no free id"]
                        ELSE [threads[t] EXCEPT !.pc = "read_offset", !.id = id])
       /\ UNCHANGED <<extvars, netvars, netlock, call, ncalls>>

\* create_node, line 894: the element cursor is read once, for the start of
\* the scan
CallerCreateNodeReadOffsetCursor(t) ==
    /\ threads[t].pc = "read_offset"
    /\ ThreadStep(t, [threads[t] EXCEPT !.pc = "scan_offset",
                                        !.cursor = last_allocated_offset])
    /\ UNCHANGED <<extvars, netvars, netlock, call, ncalls>>

\* create_node, lines 895-913: the scan for a run of free elements from the
\* cursor that was read
CallerCreateNodeScanOffset(t) ==
    LET offset == FindFreeOffset([Net EXCEPT !.last_allocated_offset = threads[t].cursor],
                                 get_elements_per_type(
                                     get_numerical_node_type(threads[t].nodetype)))
    IN /\ threads[t].pc = "scan_offset"
       /\ ThreadStep(t, IF offset < 0
                        THEN [threads[t] EXCEPT !.pc = "idle",
                                                !.err = "MemoryError: no free elements"]
                        ELSE [threads[t] EXCEPT !.pc = "l915", !.offset = offset])
       /\ UNCHANGED <<extvars, netvars, netlock, call, ncalls>>

\* create_node, lines 915-922: one assignment a step
CallerCreateNodeAssign(t) ==
    LET id == threads[t].id
        offset == threads[t].offset
        type == get_numerical_node_type(threads[t].nodetype)
        pc == threads[t].pc
        last == threads[t].nodetype # "Sensor"
    IN /\ pc \in {"l915", "l916", "l917", "l918", "l919", "l922"}
       /\ Install(CASE pc = "l915" -> [Net EXCEPT !.last_allocated_node = id]
                    [] pc = "l916" -> [Net EXCEPT !.last_allocated_offset = offset]
                    [] pc = "l917" -> [Net EXCEPT !.allocated_nodes[id] = type]
                    [] pc = "l918" -> [Net EXCEPT !.allocated_node_parents[id] =
                                             nodespace_from_id(nodespace_to_id(1))]
                    [] pc = "l919" -> [Net EXCEPT !.allocated_node_offsets[id] = offset]
                    [] pc = "l922" -> [Net EXCEPT !.allocated_elements_to_nodes[offset] = id])
       /\ ThreadStep(t, CASE pc = "l915" -> [threads[t] EXCEPT !.pc = "l916"]
                          [] pc = "l916" -> [threads[t] EXCEPT !.pc = "l917"]
                          [] pc = "l917" -> [threads[t] EXCEPT !.pc = "l918"]
                          [] pc = "l918" -> [threads[t] EXCEPT !.pc = "l919"]
                          [] pc = "l919" -> [threads[t] EXCEPT !.pc = "l922"]
                          [] pc = "l922" /\ last ->
                                 [threads[t] EXCEPT !.pc = "idle", !.ret = id]
                          [] pc = "l922" /\ ~last ->
                                 [threads[t] EXCEPT !.pc = "l936"])
       /\ UNCHANGED <<netlock, call, ncalls>>

\* create_node, line 936: connectedsensors is the list the map holds, or a
\* new list when the map has no entry
CallerCreateNodeSensorGet(t) ==
    /\ threads[t].pc = "l936"
    /\ ThreadStep(t, IF threads[t].param \in DOMAIN sensormap
                     THEN [threads[t] EXCEPT !.pc = "l937", !.held = "shared"]
                     ELSE [threads[t] EXCEPT !.pc = "l937", !.held = "own",
                                             !.list = <<>>])
    /\ UNCHANGED <<extvars, netvars, netlock, call, ncalls>>

\* create_node, line 937: the append changes the list of the map when
\* connectedsensors is that list
CallerCreateNodeSensorAppend(t) ==
    /\ threads[t].pc = "l937"
    /\ IF threads[t].held = "shared"
       THEN /\ Install([Net EXCEPT !.sensormap =
                            MapAppend(sensormap, threads[t].param, threads[t].id)])
            /\ ThreadStep(t, [threads[t] EXCEPT !.pc = "l938"])
       ELSE /\ ThreadStep(t, [threads[t] EXCEPT
                                 !.pc = "l938",
                                 !.list = Append(threads[t].list, threads[t].id)])
            /\ UNCHANGED <<extvars, netvars>>
    /\ UNCHANGED <<netlock, call, ncalls>>

\* create_node, line 938: the map entry becomes connectedsensors.  A thread
\* that holds the list this replaces keeps that list to itself from here on.
CallerCreateNodeSensorStore(t) ==
    LET param == threads[t].param
        stored == [sensormap EXCEPT ![param] = threads[t].list]
        put == IF param \in DOMAIN sensormap THEN stored
               ELSE MapPut(sensormap, param, threads[t].list)
    IN /\ threads[t].pc = "l938"
       /\ IF threads[t].held = "shared"
          THEN /\ ThreadStep(t, [threads[t] EXCEPT !.pc = "l939", !.held = "none"])
               /\ UNCHANGED <<extvars, netvars>>
          ELSE /\ Install([Net EXCEPT
                              !.sensormap = put,
                              !.key_order.sensormap = DictOrder(key_order.sensormap, put)])
               /\ threads' =
                      [u \in DOMAIN threads |->
                          IF u = t
                          THEN [threads[t] EXCEPT !.pc = "l939", !.held = "none",
                                                  !.list = <<>>]
                          ELSE IF threads[u].held = "shared"
                               THEN [threads[u] EXCEPT !.held = "own",
                                                       !.list = sensormap[param]]
                               ELSE threads[u]]
       /\ UNCHANGED <<netlock, call, ncalls>>

\* create_node, lines 939-993: the inverted map and the return of the uid
CallerCreateNodeSensorInvert(t) ==
    /\ threads[t].pc = "l939"
    /\ Install([Net EXCEPT !.inverted_sensor_map =
                   MapPut(inverted_sensor_map, node_to_id(threads[t].id), threads[t].param)])
    /\ ThreadStep(t, [threads[t] EXCEPT !.pc = "idle", !.ret = threads[t].id])
    /\ UNCHANGED <<netlock, call, ncalls>>

\* set_link_weight, line 1212: the offset of the target is read
CallerSetLinkWeightReadTarget(t) ==
    \E s \in LiveNodeUids, target \in LiveNodeUids :
        /\ threads[t].pc = "idle"
        /\ ncalls < MaxThreadCalls
        /\ ncalls' = ncalls + 1
        /\ ThreadStep(t, [IdleThread EXCEPT
                             !.pc = "l1213",
                             !.op = "set_link_weight",
                             !.source = s,
                             !.x = allocated_node_offsets[node_from_id(target)]
                                     + get_numerical_gate_type("gen")])
        /\ UNCHANGED <<extvars, netvars, netlock, call>>

\* set_link_weight, line 1213: the offset of the source is read
CallerSetLinkWeightReadSource(t) ==
    /\ threads[t].pc = "l1213"
    /\ ThreadStep(t, [threads[t] EXCEPT
                         !.pc = "l1214",
                         !.y = allocated_node_offsets[node_from_id(threads[t].source)]
                                 + get_numerical_gate_type("gen")])
    /\ UNCHANGED <<extvars, netvars, netlock, call, ncalls>>

\* set_link_weight, lines 1214-1218: the weight is written at the two offsets
\* that were read
CallerSetLinkWeightWrite(t) ==
    LET x == threads[t].x
        y == threads[t].y
    IN /\ threads[t].pc = "l1214"
       /\ IF x >= NoE \/ y >= NoE
          THEN /\ ThreadStep(t, [threads[t] EXCEPT !.pc = "idle", !.err = "IndexError"])
               /\ UNCHANGED <<extvars, netvars>>
          ELSE /\ Install([Net EXCEPT !.w = IF sparse
                                             THEN SetSparse(w, x, y, ToFloatX(Net, One))
                                             ELSE SetDense(w, x, y, ToFloatX(Net, One))])
               /\ ThreadStep(t, [threads[t] EXCEPT !.pc = "idle", !.ret = 1])
       /\ UNCHANGED <<netlock, call, ncalls>>

\* the sensor write, lines 1389-1393: sensor_uids is the list the map holds,
\* or a new empty list.  get_value and set_value with borrow=True hand out and
\* take back the array the engine holds, so the writes below go to a itself.
CallerSetSensorsGet(t) ==
    /\ threads[t].pc = "idle"
    /\ ncalls < MaxThreadCalls
    /\ ncalls' = ncalls + 1
    /\ ThreadStep(t, IF "ds" \in DOMAIN sensormap
                     THEN [IdleThread EXCEPT !.pc = "l1395", !.op = "set_sensors",
                                             !.param = "ds", !.held = "shared",
                                             !.index = 1]
                     ELSE [IdleThread EXCEPT !.pc = "l1395", !.op = "set_sensors",
                                             !.param = "ds", !.held = "own",
                                             !.index = 1])
    /\ UNCHANGED <<extvars, netvars, netlock, call>>

\* the sensor write, lines 1395-1396: one pass of the loop over the list, which
\* grows under the loop when another thread appends to it; after the last
\* pass, line 1405
CallerSetSensorsPass(t) ==
    LET sensor_uids == IF threads[t].held = "shared" THEN sensormap[threads[t].param]
                       ELSE threads[t].list
        index == threads[t].index
    IN /\ threads[t].pc = "l1395"
       /\ IF index > Len(sensor_uids)
          THEN /\ ThreadStep(t, [threads[t] EXCEPT !.pc = "idle", !.held = "none",
                                                   !.list = <<>>, !.index = 0])
               /\ UNCHANGED <<extvars, netvars>>
          ELSE /\ Install([Net EXCEPT
                              !.a[allocated_node_offsets[sensor_uids[index]] + GEN] =
                                  ToFloatX(Net, One)])
               /\ ThreadStep(t, [threads[t] EXCEPT !.index = index + 1])
       /\ UNCHANGED <<netlock, call, ncalls>>

NextThreads ==
    \/ StepSnapshot
    \/ StepAcquire
    \/ StepPropagate
    \/ StepCalculate
    \/ StepIncrement
    \/ \E t \in Callers : CallerCreateNodeReadNodeCursor(t)
    \/ \E t \in Callers : CallerCreateNodeScanId(t)
    \/ \E t \in Callers : CallerCreateNodeReadOffsetCursor(t)
    \/ \E t \in Callers : CallerCreateNodeScanOffset(t)
    \/ \E t \in Callers : CallerCreateNodeAssign(t)
    \/ \E t \in Callers : CallerCreateNodeSensorGet(t)
    \/ \E t \in Callers : CallerCreateNodeSensorAppend(t)
    \/ \E t \in Callers : CallerCreateNodeSensorStore(t)
    \/ \E t \in Callers : CallerCreateNodeSensorInvert(t)
    \/ \E t \in Callers : CallerSetLinkWeightReadTarget(t)
    \/ \E t \in Callers : CallerSetLinkWeightReadSource(t)
    \/ \E t \in Callers : CallerSetLinkWeightWrite(t)
    \/ \E t \in Callers : CallerSetSensorsGet(t)
    \/ \E t \in Callers : CallerSetSensorsPass(t)

SpecThreads == Init /\ [][NextThreads]_vars


(***************************************************************************)
(* Properties of the arena.                                                *)
(***************************************************************************)
RunOf(i) ==
    allocated_node_offsets[i]..
        (allocated_node_offsets[i] + get_elements_per_type(allocated_nodes[i]) - 1)

\* C1: every element of the run of a live node is inside the element vector
\* and is owned by that node, and the runs of two distinct live nodes share
\* no element.
C1_Ownership ==
    \A i \in NodeIds :
        allocated_nodes[i] # 0 =>
            /\ \A e \in RunOf(i) : e \in Elements /\ allocated_elements_to_nodes[e] = i
            /\ \A j \in NodeIds :
                   (j # i /\ allocated_nodes[j] # 0) => RunOf(i) \cap RunOf(j) = {}

\* a node was created into a hole left by a delete, next to a seven-element node
C1_Witness ==
    /\ call.op = "create_node" /\ call.err = "ok"
    /\ \E i, j \in NodeIds :
          /\ i # j
          /\ allocated_nodes[i] = PIPE
          /\ allocated_nodes[j] # 0
          /\ allocated_node_offsets[j] < last_allocated_offset

\* the vectors, cursors, names, positions and maps that describe the arena
ArenaVectors ==
    <<allocated_nodes, allocated_node_offsets, allocated_node_parents,
      allocated_elements_to_nodes, allocated_nodespaces,
      allocated_nodespaces_activators, allocated_elements_to_activators,
      last_allocated_node, last_allocated_offset, last_allocated_nodespace,
      names, positions,
      sensormap, inverted_sensor_map, actuatormap, inverted_actuator_map>>

\* C3: a create_node with the uid of a live node fails with DuplicateUid and
\* changes no arena vector, cursor or map.
C3_DuplicateUidRejected ==
    [][(/\ call'.op = "create_node"
        /\ call'.uid # NoUid
        /\ allocated_nodes[node_from_id(call'.uid)] # 0)
         => (call'.err = "DuplicateUid" /\ ArenaVectors' = ArenaVectors)]_vars

\* the free entries of a vector in the order of the documented id scan:
\* cursor+1 .. end, then 1 .. cursor-1
IdScanOrder(cursor, n) ==
    [k \in 1..((n - 1 - cursor) + (IF cursor >= 2 THEN cursor - 1 ELSE 0)) |->
        IF k <= n - 1 - cursor THEN cursor + k ELSE k - (n - 1 - cursor)]

FirstFreeInOrder(vec, order) ==
    LET hits == {k \in 1..Len(order) : vec[order[k]] = 0}
    IN IF hits = {} THEN 0 ELSE order[Min(hits)]

\* C9: create_node without uid takes the first free id in the order
\* cursor+1 .. NoN-1, 1 .. cursor-1 and fails for lack of an id only when
\* there is none.
C9_IdScan ==
    [][(call'.op = "create_node" /\ call'.uid = NoUid)
         => LET want == FirstFreeInOrder(allocated_nodes,
                                         IdScanOrder(last_allocated_node, NoN))
            IN /\ (call'.err = "MemoryError: no free id") <=> (want = 0)
               /\ (call'.err = "ok") => (call'.ret = want)]_vars

\* the offsets at which a run of n free elements starts
FreeRuns(ae, n) ==
    {o \in Elements : \A k \in 0..(n - 1) : o + k \in Elements /\ ae[o + k] = 0}

\* C10: when an id is available, create_node fails for lack of elements
\* exactly when the element vector has no run of element_count(type) free
\* entries; otherwise the node gets the first such run after the cursor, or,
\* when there is none after the cursor, the first run of the vector.
C10_ElementScan ==
    [][(call'.op = "create_node" /\ call'.err # "MemoryError: no free id")
         => LET n == get_elements_per_type(get_numerical_node_type(call'.nodetype))
                runs == FreeRuns(allocated_elements_to_nodes, n)
                after == {o \in runs : o > last_allocated_offset}
            IN /\ (call'.err = "MemoryError: no free elements") <=> (runs = {})
               /\ (runs # {}) =>
                     /\ call'.err = "ok"
                     /\ allocated_node_offsets'[call'.ret] =
                            (IF after # {} THEN Min(after) ELSE Min(runs))
                     /\ \A k \in 0..(n - 1) :
                            allocated_elements_to_nodes'[
                                allocated_node_offsets'[call'.ret] + k] = call'.ret]_vars

\* a seven-element node was placed by the scan after it wrapped
C10_Witness ==
    /\ call.op = "create_node" /\ call.err = "ok" /\ call.nodetype = "Pipe"
    /\ allocated_node_offsets[call.ret] = 0
    /\ \E j \in NodeIds : allocated_nodes[j] = REGISTER

(***************************************************************************)
(* Properties of the links.                                                *)
(***************************************************************************)
\* the net in the other storage mode, with the same weights
OtherMode(S) ==
    [S EXCEPT !.sparse = ~ S.sparse,
              !.w = IF S.sparse THEN ToDense(S.w) ELSE ToSparse(S.w)]

\* the link addresses of the live nodes
LinkAddresses ==
    {ad \in LiveNodeUids \X LinkNames \X LiveNodeUids \X LinkNames :
        ad[2] \in gatetypes(allocated_nodes[node_from_id(ad[1])]) /\
        ad[4] \in slottypes(allocated_nodes[node_from_id(ad[3])])}

CellOf(ad) ==
    <<allocated_node_offsets[node_from_id(ad[3])] + get_numerical_gate_type(ad[4]),
      allocated_node_offsets[node_from_id(ad[1])] + get_numerical_gate_type(ad[2])>>

AddressOf(l) ==
    <<l.source_node_uid, l.source_gate_name, l.target_node_uid, l.target_slot_name>>

\* the links dict read from a net, no nodespace given
LinksOf(S) == construct_links_dict(S, NoUid)

\* C7: in every state, set_link_weight(s, g, t, sl, v) between live nodes
\* succeeds, the weight read back for that address afterwards is v rounded
\* to the configured float width, and the same call on the net in the other
\* storage mode leaves the same links dict.
C7_RoundTrip ==
    \A ad \in LinkAddresses, v \in Weights :
        LET T == set_link_weight(Net, ad[1], ad[2], ad[3], ad[4], v)
            U == set_link_weight(OtherMode(Net), ad[1], ad[2], ad[3], ad[4], v)
            read == LinksOf(T)
            other_read == LinksOf(U)
        IN /\ T.err = "ok"
           /\ read.err = "ok"
           /\ LinkWeights(read.ret, ad[1], ad[2], ad[3], ad[4]) = {ToFloatX(Net, v)}
           /\ other_read.err = "ok"
           /\ other_read.ret = read.ret

\* a second link was set in a dense float32 net and both links are read back
C7_Witness ==
    /\ call.op = "set_link_weight" /\ call.err = "ok"
    /\ ~ sparse
    /\ precision = "32"
    /\ ncalls = MaxLinkCalls
    /\ LinksOf(Net).err = "ok"
    /\ \E l1, l2 \in LinksOf(Net).ret : l1.uid # l2.uid

\* C7 as stated: the weight read back for that address is v itself, in
\* either storage mode.
C7_ExactRoundTrip ==
    \A ad \in LinkAddresses, v \in Weights :
        LET T == set_link_weight(Net, ad[1], ad[2], ad[3], ad[4], v)
            U == set_link_weight(OtherMode(Net), ad[1], ad[2], ad[3], ad[4], v)
            read == LinksOf(T)
        IN /\ LinkWeights(read.ret, ad[1], ad[2], ad[3], ad[4]) = {v}
           /\ LinksOf(U).ret = read.ret

\* C8: in every state, set_link_weight changes no cell of w but the cell of
\* its address, the weight of every other link stays what it was, and two
\* distinct link addresses of live nodes never have the same cell.
C8_Frame ==
    LET before == LinksOf(Net)
    IN /\ \A ad1, ad2 \in LinkAddresses : ad1 # ad2 => CellOf(ad1) # CellOf(ad2)
       /\ before.err = "ok"
       /\ \A ad \in LinkAddresses, v \in Weights :
             LET T == set_link_weight(Net, ad[1], ad[2], ad[3], ad[4], v)
                 after == LinksOf(T)
             IN /\ \A p \in Elements \X Elements :
                      p # CellOf(ad) => WAt(T.w, p[1], p[2]) = WAt(w, p[1], p[2])
                /\ after.err = "ok"
                /\ {l \in after.ret : AddressOf(l) # ad}
                     = {l \in before.ret : AddressOf(l) # ad}

\* two links leave the same gate of a seven-element node, the second set
\* after the first
C8_Witness ==
    /\ call.op = "set_link_weight" /\ call.err = "ok"
    /\ LinksOf(Net).err = "ok"
    /\ \E l1, l2 \in LinksOf(Net).ret :
          /\ l1.uid # l2.uid
          /\ l1.source_node_uid = l2.source_node_uid
          /\ l1.source_gate_name = l2.source_gate_name
          /\ allocated_nodes[node_from_id(l1.source_node_uid)] = PIPE

(***************************************************************************)
(* Properties of the link protocol.                                        *)
(***************************************************************************)
\* C2: every non-zero weight w[x, y] has its target element x and its source
\* element y owned by a live node.
C2_WeightsOwned ==
    \A p \in DOMAIN w :
        w[p] # 0 => /\ allocated_elements_to_nodes[p[1]] # 0
                    /\ allocated_elements_to_nodes[p[2]] # 0

\* the seven flags from the offset of a node are all set
AllLinked(flags, i) ==
    \A k \in 0..6 :
        /\ allocated_node_offsets[i] + k \in Elements
        /\ flags[allocated_node_offsets[i] + k] = 1

\* a non-zero weight is stored on the row of a slot of a node
HasIncoming(i, slot) ==
    \E y \in Elements : WAt(w, allocated_node_offsets[i] + slot, y) # 0

\* C6: for every live node, the seven por flags are set exactly when the
\* node is a Pipe with a non-zero incoming link on its POR slot, and the
\* seven ret flags exactly when it is a Pipe with one on its RET slot.
C6_LinkedFlags ==
    \A i \in LiveNodes(Net) :
        /\ AllLinked(n_node_porlinked, i)
             <=> (allocated_nodes[i] = PIPE /\ HasIncoming(i, POR))
        /\ AllLinked(n_node_retlinked, i)
             <=> (allocated_nodes[i] = PIPE /\ HasIncoming(i, RET))

(***************************************************************************)
(* Properties of the threads.                                              *)
(***************************************************************************)
\* the step holds the lock and has not yet incremented the step counter
InStep == threads[Stepper].pc \in {"propagate", "calculate", "increment"}

\* C4: between the start of Propagate and the increment of current_step of a
\* running step, a step of another thread changes nothing of the net.
C4_StepAtomic ==
    [][(InStep /\ threads'[Stepper] = threads[Stepper]) => netvars' = netvars]_vars

\* the last call of a thread was a create_node that has returned a uid
Created(t) ==
    /\ threads[t].pc = "idle"
    /\ threads[t].op = "create_node"
    /\ threads[t].err = "ok"

\* no call of a caller is between two of its statements
Quiescent == \A t \in Callers : threads[t].pc = "idle"

\* C5: the create_node calls of two threads return different ids and reserve
\* disjoint runs of elements, and the ownership invariant holds once the
\* calls have returned.
C5_ConcurrentCreate ==
    /\ \A t1, t2 \in Callers :
          (t1 # t2 /\ Created(t1) /\ Created(t2))
             => /\ threads[t1].ret # threads[t2].ret
                /\ threads[t1].offset # threads[t2].offset
    /\ Quiescent => C1_Ownership

(***************************************************************************)
(* Properties of delete_node followed by create_node.                      *)
(***************************************************************************)
\* C11: in every state, when a live Pipe is deleted and a Pipe is created
\* next, the new Pipe is given the element run the deleted Pipe had.
C11_FreedRangeReused ==
    \A u \in LiveNodeUids :
        LET id == node_from_id(u)
            S1 == delete_node(Net, u)
            S2 == create_node(S1, "Pipe", nodespace_to_id(1), NoPosition, NoName, NoUid, NoParam)
        IN (allocated_nodes[id] = PIPE /\ S1.err = "ok" /\ S2.err = "ok")
              => S2.allocated_node_offsets[S2.ret] = allocated_node_offsets[id]

\* get_string_node_type for the standard node types
get_string_node_type(type) ==
    CASE type = REGISTER -> "Register"
      [] type = SENSOR -> "Sensor"
      [] type = ACTUATOR -> "Actor"
      [] type = CONCEPT -> "Concept"
      [] type = PIPE -> "Pipe"
      [] type = ACTIVATOR -> "Activator"

\* the vectors of the arena that describe the nodes
NodeVectors(S) ==
    <<S.allocated_nodes, S.allocated_node_offsets, S.allocated_node_parents,
      S.allocated_elements_to_nodes, S.n_function_selector,
      S.allocated_nodespaces_activators, S.allocated_elements_to_activators>>

\* C12: in every state and for every live node u, delete_node(u) followed by
\* create_node with the type, the nodespace and the uid of u succeeds and
\* gives back the node vectors of the state before the delete.
C12_DeleteCreateRestores ==
    \A u \in LiveNodeUids :
        LET id == node_from_id(u)
            S1 == delete_node(Net, u)
            S2 == create_node(S1, get_string_node_type(allocated_nodes[id]),
                              nodespace_to_id(allocated_node_parents[id]),
                              NoPosition, NoName, u, NoParam)
        IN S1.err = "ok" => (S2.err = "ok" /\ NodeVectors(S2) = NodeVectors(Net))

(***************************************************************************)
(* Specification of the capacity of the arena: nodes of one and of seven   *)
(* elements, Sensors and Actors with a datasource or datatarget among      *)
(* them, are created in the Root nodespace with and without a position and *)
(* a name until the ids or the elements run out, and deleted.  The number  *)
(* of calls is bounded.                                                    *)
(***************************************************************************)
MaxCapacityCalls == 3

CapacityCreateNode ==
    \E nodetype \in {"Register", "Pipe", "Sensor", "Actor"},
       position \in {NoPosition, <<1, 2>>}, name \in {NoName, "A"} :
        /\ ncalls < MaxCapacityCalls
        /\ CreatePositionedNodeCall(nodetype, nodespace_to_id(1), position, name, NoUid,
                                    IF nodetype \in {"Sensor", "Actor"} THEN "d1" ELSE NoParam)
        /\ ncalls' = ncalls + 1

CapacityDeleteNode ==
    \E uid \in LiveNodeUids :
        DeleteNodeCall(uid) /\ ncalls < MaxCapacityCalls /\ ncalls' = ncalls + 1

NextCapacity ==
    \/ CapacityCreateNode
    \/ CapacityDeleteNode

SpecCapacity == Init /\ [][NextCapacity]_vars

\* C13: a create_node that fails for lack of an id or of a run of elements
\* leaves the arena vectors, the cursors, the names, the positions and the
\* sensor and actuator maps as they were.
C13_AllOrNothing ==
    [][(/\ call'.op = "create_node"
        /\ call'.err \in {"MemoryError: no free id", "MemoryError: no free elements"})
         => ArenaVectors' = ArenaVectors]_vars

\* a create_node with a position failed for lack of elements in an arena
\* that holds a Sensor with a name, a position and a datasource
C13_Witness ==
    /\ call.op = "create_node"
    /\ call.err = "MemoryError: no free elements"
    /\ call.position # NoPosition
    /\ \E id \in LiveNodes(Net) :
          /\ allocated_nodes[id] = SENSOR
          /\ node_to_id(id) \in DOMAIN names
          /\ node_to_id(id) \in DOMAIN positions
          /\ node_to_id(id) \in DOMAIN inverted_sensor_map

(***************************************************************************)
(* Specification of the link calls on uids of nodes that are not live:     *)
(* nodes are created in the Root nodespace and deleted, and                *)
(* set_link_weight, create_link and delete_link are called with a source   *)
(* or a target uid that no live node has.  The number of calls is bounded. *)
(***************************************************************************)
UnknownCreateNode ==
    \E nodetype \in {"Register", "Pipe"} :
        /\ ncalls < MaxUnknownCalls
        /\ CreateNodeCall(nodetype, nodespace_to_id(1), NoUid, NoParam)
        /\ ncalls' = ncalls + 1

UnknownDeleteNode ==
    \E uid \in LiveNodeUids :
        /\ ncalls < MaxUnknownCalls
        /\ DeleteNodeCall(uid)
        /\ ncalls' = ncalls + 1

UnknownSetLinkWeight ==
    \E s \in NodeUids, t \in NodeUids, g \in LinkNames, sl \in LinkNames, weight \in {0, One} :
        LET S == set_link_weight(Net, s, g, t, sl, weight)
        IN /\ ncalls < MaxUnknownCalls
           /\ s \notin LiveNodeUids \/ t \notin LiveNodeUids
           /\ Install(S)
           /\ call' = [NoCall EXCEPT !.op = "set_link_weight", !.source = s,
                                     !.target = t, !.err = S.err]
           /\ ncalls' = ncalls + 1
           /\ UNCHANGED <<netlock, threads>>

UnknownCreateLink ==
    \E s \in NodeUids, t \in NodeUids, g \in LinkNames, sl \in LinkNames :
        LET S == create_link(Net, s, g, t, sl, One)
        IN /\ ncalls < MaxUnknownCalls
           /\ s \notin LiveNodeUids \/ t \notin LiveNodeUids
           /\ Install(S)
           /\ call' = [NoCall EXCEPT !.op = "create_link", !.source = s,
                                     !.target = t, !.err = S.err]
           /\ ncalls' = ncalls + 1
           /\ UNCHANGED <<netlock, threads>>

UnknownDeleteLink ==
    \E s \in NodeUids, t \in NodeUids, g \in LinkNames, sl \in LinkNames :
        LET S == delete_link(Net, s, g, t, sl)
        IN /\ ncalls < MaxUnknownCalls
           /\ s \notin LiveNodeUids \/ t \notin LiveNodeUids
           /\ Install(S)
           /\ call' = [NoCall EXCEPT !.op = "delete_link", !.source = s,
                                     !.target = t, !.err = S.err]
           /\ ncalls' = ncalls + 1
           /\ UNCHANGED <<netlock, threads>>

NextUnknown ==
    \/ UnknownCreateNode
    \/ UnknownDeleteNode
    \/ UnknownSetLinkWeight
    \/ UnknownCreateLink
    \/ UnknownDeleteLink

SpecUnknown == Init /\ [][NextUnknown]_vars

\* C14: set_link_weight, create_link and delete_link called with a source or
\* a target uid that is not the uid of a live node fail with UnknownUid and
\* leave w and the por and ret flags unchanged.
C14_UnknownUidRejected ==
    [][(/\ call'.op \in {"set_link_weight", "create_link", "delete_link"}
        /\ \/ ~ is_node(Net, node_from_id(call'.source))
           \/ ~ is_node(Net, node_from_id(call'.target)))
         => /\ call'.err = "UnknownUid"
            /\ w' = w
            /\ n_node_porlinked' = n_node_porlinked
            /\ n_node_retlinked' = n_node_retlinked]_vars

(***************************************************************************)
(* Properties of the nodespaces.                                           *)
(***************************************************************************)
\* C15: delete_nodespace of the Root nodespace (id 1) is refused and deletes
\* no node and no nodespace.
C15_RootProtected ==
    [][(call'.op = "delete_nodespace" /\ call'.nodespace = nodespace_to_id(1))
         => /\ call'.err # "ok"
            /\ allocated_nodes' = allocated_nodes
            /\ allocated_nodespaces' = allocated_nodespaces]_vars

\* C16: the Root nodespace is a nodespace of the net in every state, a
\* create_nodespace without uid that returns has not returned id 1, and the
\* next one will not be given id 1.
C16_RootAllocated ==
    /\ is_nodespace(Net, 1)
    /\ FindFreeNodespaceId(Net) # 1
    /\ (call.op = "create_nodespace" /\ call.err = "ok") => call.ret >= 2

\* a nodespace was created after the Root nodespace had been deleted
C16_Witness ==
    /\ call.op = "create_nodespace" /\ call.err = "ok"
    /\ allocated_nodespaces[1] = 0
    /\ last_allocated_nodespace = call.ret
    /\ LiveNodes(Net) # {}

(***************************************************************************)
(* Specification of the nodespace tree: nodespaces are created below any   *)
(* live nodespace, nodes are created in any live nodespace, and live       *)
(* nodespaces are deleted.  The number of calls is bounded.                *)
(***************************************************************************)
TreeCreateNodespace ==
    \E parent \in LiveNodespaceUids :
        /\ ncalls < MaxTreeCalls
        /\ CreateNodespaceCall(parent)
        /\ ncalls' = ncalls + 1

TreeCreateNode ==
    \E nodetype \in {"Register", "Pipe"}, ns \in LiveNodespaceUids :
        /\ ncalls < MaxTreeCalls
        /\ CreateNodeCall(nodetype, ns, NoUid, NoParam)
        /\ ncalls' = ncalls + 1

TreeDeleteNodespace ==
    \E uid \in LiveNodespaceUids :
        /\ ncalls < MaxTreeCalls
        /\ DeleteNodespaceCall(uid)
        /\ ncalls' = ncalls + 1

NextTree ==
    \/ TreeCreateNodespace
    \/ TreeCreateNode
    \/ TreeDeleteNodespace

SpecTree == Init /\ [][NextTree]_vars

\* the nodespace ids of a set together with all nodespaces below them
RECURSIVE Subtree(_)
Subtree(ids) ==
    LET below == {c \in NodespaceIds \ ids : allocated_nodespaces[c] \in ids}
    IN IF below = {} THEN ids ELSE Subtree(ids \cup below)

Max(S) == CHOOSE x \in S : \A y \in S : x >= y

\* C17: when delete_nodespace of a nodespace X other than Root returns, X
\* and every nodespace that was below X are unallocated, no live node has X
\* or a nodespace that was below X as its parent, and the nodes of X itself
\* were deleted last, after those of the nodespaces below it.
C17_RecursiveDelete ==
    [][(/\ call'.op = "delete_nodespace"
        /\ call'.nodespace # nodespace_to_id(1)
        /\ call'.err = "ok")
         => LET X == nodespace_from_id(call'.nodespace)
                own == {n \in NodeIds : allocated_node_parents[n] = X}
            IN /\ \A c \in Subtree({X}) : allocated_nodespaces'[c] = 0
               /\ \A c \in NodespaceIds : allocated_nodespaces'[c] \notin Subtree({X})
               /\ \A n \in NodeIds :
                      allocated_nodes'[n] # 0 => allocated_node_parents'[n] \notin Subtree({X})
               /\ \A n \in NodeIds :
                      allocated_node_parents[n] \in Subtree({X}) => allocated_nodes'[n] = 0
               /\ own # {} => last_allocated_node' = Max(own) - 1]_vars

\* s2 holds a node and the nodespace s3, which holds a node, and the
\* delete_nodespace of s2 that the next step makes returns
C17_Witness ==
    /\ ncalls < MaxTreeCalls
    /\ allocated_nodespaces[2] = 1
    /\ allocated_nodespaces[3] = 2
    /\ \E n, m \in LiveNodes(Net) :
          /\ allocated_node_parents[n] = 2
          /\ allocated_node_parents[m] = 3
          /\ m > n
    /\ delete_nodespace(Net, nodespace_to_id(2)).err = "ok"

(***************************************************************************)
(* Specification of the activators: Pipes and Activators are created in    *)
(* the Root nodespace, an Activator with or without the gate type it is to *)
(* control; set_nodespace_gatetype_activator binds a gate type of the Root *)
(* nodespace to a live node or to none; live nodes are deleted.  The       *)
(* number of calls is bounded.                                             *)
(***************************************************************************)
ActivatorTypes == {"por", "ret"}

ActCreateNode ==
    \E nodetype \in {"Pipe", "Activator"}, param \in {NoParam, ""} \cup ActivatorTypes :
        /\ ncalls < MaxActivatorCalls
        /\ nodetype = "Pipe" => param = NoParam
        /\ CreateNodeCall(nodetype, nodespace_to_id(1), NoUid, param)
        /\ ncalls' = ncalls + 1

ActSetNodespaceGatetypeActivator ==
    \E gate_type \in ActivatorTypes, activator_uid \in {NoUid} \cup LiveNodeUids :
        LET S == set_nodespace_gatetype_activator(Net, 1, gate_type, activator_uid)
        IN /\ ncalls < MaxActivatorCalls
           /\ Install(S)
           /\ call' = [NoCall EXCEPT !.op = "set_nodespace_gatetype_activator",
                                     !.nodespace = nodespace_to_id(1),
                                     !.param = gate_type,
                                     !.uid = activator_uid,
                                     !.err = S.err]
           /\ ncalls' = ncalls + 1
           /\ UNCHANGED <<netlock, threads>>

ActDeleteNode ==
    \E uid \in LiveNodeUids :
        /\ ncalls < MaxActivatorCalls
        /\ DeleteNodeCall(uid)
        /\ ncalls' = ncalls + 1

NextActivators ==
    \/ ActCreateNode
    \/ ActSetNodespaceGatetypeActivator
    \/ ActDeleteNode

SpecActivators == Init /\ [][NextActivators]_vars

\* C18: after a delete_node(u) that returns, no entry of the six activator
\* vectors of the nodespaces is the id of u, and no entry of
\* allocated_elements_to_activators is the offset u had (an offset of 0 is
\* the value of an element without activator and is not looked at).
C18_ActivatorBindingsRewritten ==
    [][(call'.op = "delete_node" /\ call'.err = "ok")
         => LET id == node_from_id(call'.uid)
                offset == allocated_node_offsets[id]
            IN /\ \A d \in Dirs, ns \in NodespaceIds :
                       allocated_nodespaces_activators'[d][ns] # id
               /\ offset # 0 =>
                      \A e \in Elements : allocated_elements_to_activators'[e] # offset]_vars

\* C19: after a delete_node(u) that returns, the entries of u in
\* allocated_nodes, allocated_node_offsets and allocated_node_parents are 0,
\* and every element of the run u had is owned by no node, has no node
\* function selector and no activator.
C19_OwnedSlotsZeroed ==
    [][(call'.op = "delete_node" /\ call'.err = "ok")
         => LET id == node_from_id(call'.uid)
            IN /\ allocated_nodes'[id] = 0
               /\ allocated_node_offsets'[id] = 0
               /\ allocated_node_parents'[id] = 0
               /\ \A e \in RunOf(id) :
                      /\ allocated_elements_to_nodes'[e] = 0
                      /\ n_function_selector'[e] = 0
                      /\ allocated_elements_to_activators'[e] = 0]_vars

(***************************************************************************)
(* Specification of the sensors and actors: Sensors and Actors are created *)
(* in the Root nodespace with or without a datasource or datatarget, and   *)
(* live nodes are deleted.  The number of calls is bounded.                *)
(***************************************************************************)
DataNames == {"d1", "d2"}

SensorCreateNode ==
    \E nodetype \in {"Sensor", "Actor"}, param \in {NoParam} \cup DataNames :
        /\ ncalls < MaxSensorCalls
        /\ CreateNodeCall(nodetype, nodespace_to_id(1), NoUid, param)
        /\ ncalls' = ncalls + 1

SensorDeleteNode ==
    \E uid \in LiveNodeUids :
        /\ ncalls < MaxSensorCalls
        /\ DeleteNodeCall(uid)
        /\ ncalls' = ncalls + 1

NextSensors ==
    \/ SensorCreateNode
    \/ SensorDeleteNode

SpecSensors == Init /\ [][NextSensors]_vars

\* a map from data names to lists of node ids and its inverted map agree,
\* and the ids are those of live nodes of the type, each listed once
MapConsistent(map, inverted, type) ==
    /\ \A key \in DOMAIN map :
          /\ Len(map[key]) >= 1
          /\ \A k \in 1..Len(map[key]) :
                LET id == map[key][k]
                IN /\ allocated_nodes[id] = type
                   /\ node_to_id(id) \in DOMAIN inverted
                   /\ inverted[node_to_id(id)] = key
                   /\ \A j \in 1..Len(map[key]) : map[key][j] = id => j = k
    /\ \A uid \in DOMAIN inverted :
          /\ inverted[uid] \in DOMAIN map
          /\ \E k \in 1..Len(map[inverted[uid]]) :
                map[inverted[uid]][k] = node_from_id(uid)

\* C20: in every state the sensor map and its inverted map are a consistent
\* view of the live Sensors, the actuator map and its inverted map one of
\* the live Actors, and a Sensor or Actor created with a datasource or
\* datatarget is in the list of that name from then on.
C20_SensorMapConsistent ==
    /\ [](/\ MapConsistent(sensormap, inverted_sensor_map, SENSOR)
          /\ MapConsistent(actuatormap, inverted_actuator_map, ACTUATOR))
    /\ [][(/\ call'.op = "create_node" /\ call'.err = "ok"
           /\ call'.param # NoParam)
            => LET map == IF call'.nodetype = "Sensor" THEN sensormap' ELSE actuatormap'
               IN /\ call'.param \in DOMAIN map
                  /\ \E k \in 1..Len(map[call'.param]) :
                        map[call'.param][k] = call'.ret]_vars


(***************************************************************************)
(* C21: in every state reached through create_node, delete_node and        *)
(* set_nodespace_gatetype_activator, every live Pipe p of a nodespace ns    *)
(* has, for every direction d of por, ret, sub, sur, cat and exp, in        *)
(* allocated_elements_to_activators[offset(p) + index(d)] the element       *)
(* offset of the node that is bound as d-activator of ns, and 0 when the    *)
(* bound id is 0 or names no live node.                                     *)
(***************************************************************************)
BoundActivatorOffset(d, ns) ==
    LET id == allocated_nodespaces_activators[d][ns]
    IN IF id # 0 /\ allocated_nodes[id] # 0 THEN allocated_node_offsets[id] ELSE 0

C21_ActivatorCellsTrackBinding ==
    \A p \in LiveNodes(Net) : \A d \in Dirs :
        allocated_nodes[p] = PIPE =>
            allocated_elements_to_activators[allocated_node_offsets[p]
                                             + get_numerical_gate_type(d)]
                = BoundActivatorOffset(d, allocated_node_parents[p])

(***************************************************************************)
(* SpecGate: one gate of a node of the dict engine and the activators of   *)
(* the node's nodespace.  The gate is constructed with parameters drawn    *)
(* from small sets; the node function of the gate's node calls the gate    *)
(* function with an input, and the node function of an Activator node of    *)
(* the nodespace stores its activation for a gate type.                     *)
(***************************************************************************)
MaxGateCalls == 4

GateTypeNames == {"gen", "sub"}
GateInputs == {-GOne, 0, GOne \div 2, GOne, 2 * GOne}
GateFactors == {0, GOne \div 2, GOne}

InitGate ==
    /\ ConstructedEngine(TRUE, "64")
    /\ activators = [t \in {} |-> 0]
    /\ \E type \in GateTypeNames, amplification \in {GOne, 2 * GOne},
          threshold \in {0, GOne \div 2}, decay \in {0, GOne \div 2},
          minimum \in {-GOne, 0} :
            gate = Gate(type, [amplification |-> amplification, threshold |-> threshold,
                               decay |-> decay, minimum |-> minimum])

GateNodeFunction ==
    \E input_activation \in GateInputs :
        /\ ncalls < MaxGateCalls
        /\ gate' = gate_function(gate, activators, input_activation)
        /\ call' = [NoCall EXCEPT !.op = "gate_function",
                                  !.err = IF GateFunctionRaises(gate, activators)
                                          THEN "KeyError" ELSE "ok"]
        /\ ncalls' = ncalls + 1
        /\ UNCHANGED <<netvars, netlock, threads, activators, disk, record_storage, other, scan>>

GateActivatorNodeFunction ==
    \E type \in GateTypeNames, activation \in GateFactors :
        /\ ncalls < MaxGateCalls
        /\ activators' = ActivatorNodeFunction(activators, type, activation)
        /\ call' = [NoCall EXCEPT !.op = "activator", !.param = type]
        /\ ncalls' = ncalls + 1
        /\ UNCHANGED <<netvars, netlock, threads, gate, disk, record_storage, other, scan>>

\* the dicts that set_gate_parameters is called with: one parameter, and
\* all six
GateParameterDicts ==
    {[threshold |-> GOne \div 2],
     [GateDefaults EXCEPT !.amplification = 2 * GOne, !.decay = GOne \div 2]}

GateSetGateParameters ==
    \E parameters \in GateParameterDicts :
        /\ ncalls < MaxGateCalls
        /\ gate' = set_gate_parameters(gate, parameters)
        /\ call' = [NoCall EXCEPT !.op = "set_gate_parameters"]
        /\ ncalls' = ncalls + 1
        /\ UNCHANGED <<netvars, netlock, threads, activators, disk, record_storage, other, scan>>

NextGate ==
    \/ GateNodeFunction
    \/ GateActivatorNodeFunction
    \/ GateSetGateParameters

SpecGate == InitGate /\ [][NextGate]_vars

\* the threshold, amplification, decay and clamp steps with a gate factor of 1
NormalGateOutput(g, x) ==
    LET y == ((IF x >= g.parameters.threshold THEN x ELSE g.parameters.threshold)
                 * g.parameters.amplification) \div GOne
        kept == (g.activation * (GOne - g.parameters.decay)) \div GOne
        d == IF g.parameters.decay = 0 THEN y
             ELSE IF y < 0 THEN (IF kept < y THEN kept ELSE y)
             ELSE (IF kept > y THEN kept ELSE y)
    IN IF d > g.parameters.maximum THEN g.parameters.maximum
       ELSE IF d < g.parameters.minimum THEN g.parameters.minimum
       ELSE d

(***************************************************************************)
(* C22: activator short-circuit.  When the activator of the gate's type    *)
(* has activation 0 the gate function sets the gate's activation to        *)
(* exactly 0, for every input and whatever the threshold, amplification,   *)
(* decay, minimum, maximum and previous activation are; when it has        *)
(* activation 1 the result is that of the threshold, amplification, decay  *)
(* and clamp steps.                                                        *)
(***************************************************************************)
C22_ShortCircuit ==
    \A x \in GateInputs :
        gate.type \in DOMAIN activators =>
            /\ activators[gate.type] = 0 =>
                   gate_function(gate, activators, x).activation = 0
            /\ (activators[gate.type] = GOne /\ GateFunctionKeys \subseteq DOMAIN gate.parameters) =>
                   gate_function(gate, activators, x).activation = NormalGateOutput(gate, x)

\* the factor is 0 where the decay step would keep a part of a positive activation
C22_Witness ==
    /\ gate.type \in DOMAIN activators
    /\ activators[gate.type] = 0
    /\ GateFunctionKeys \subseteq DOMAIN gate.parameters
    /\ gate.parameters.decay # 0
    /\ gate.activation > 0
    /\ call.op = "activator"

(***************************************************************************)
(* C23: a gate for whose type the nodespace has no activator uses the gate *)
(* factor 1: the gate function gives the result of the threshold,          *)
(* amplification, decay and clamp steps applied to the input.              *)
(***************************************************************************)
C23_UnboundFactorOne ==
    \A x \in GateInputs :
        (gate.type \notin DOMAIN activators /\ GateFunctionKeys \subseteq DOMAIN gate.parameters) =>
            gate_function(gate, activators, x).activation = NormalGateOutput(gate, x)

(***************************************************************************)
(* C24: current_step is monotonic.  Every step that completes adds exactly *)
(* one to current_step, and no other operation changes it, so that after k  *)
(* completed steps it is its earlier value plus k.                          *)
(***************************************************************************)
StepCompletes == threads[Stepper].pc = "increment" /\ threads'[Stepper].pc = "idle"

C24_StepCounter ==
    [][/\ StepCompletes => current_step' = current_step + 1
       /\ ~StepCompletes => current_step' = current_step]_vars

\* two steps have completed and the other threads have made calls
C24_Witness ==
    /\ current_step = 2
    /\ threads[Stepper].pc = "idle"
    /\ \E t \in Callers : threads[t].op = "create_node" /\ threads[t].err = "ok"
    /\ \E t \in Callers : threads[t].op = "set_sensors"

(***************************************************************************)
(* C25: within every step the events occur in the order world snapshot,    *)
(* Propagate, Calculate, increment of current_step; Propagate, Calculate    *)
(* and the increment run while the stepping thread holds netlock, and      *)
(* Calculate never runs before the Propagate of the same step.             *)
(***************************************************************************)
StepOrder ==
    {<<"idle", "lock">>, <<"lock", "propagate">>, <<"propagate", "calculate">>,
     <<"calculate", "increment">>, <<"increment", "idle">>}

C25_StepOrder ==
    [][/\ threads'[Stepper].pc # threads[Stepper].pc
            => <<threads[Stepper].pc, threads'[Stepper].pc>> \in StepOrder
       /\ (threads'[Stepper].pc # threads[Stepper].pc /\ InStep) => netlock = Stepper
       /\ current_step' # current_step => threads[Stepper].pc = "increment"]_vars

\* a step is at its increment: snapshot, Propagate and Calculate have run
C25_Witness ==
    /\ threads[Stepper].pc = "increment"
    /\ netlock = Stepper
    /\ current_step = 1

(***************************************************************************)
(* SpecChain: an engine with room for NoNChain - 1 nodes.  Register nodes  *)
(* are created in Root, links from GEN to gen with weight 1 are set        *)
(* between live nodes, the GEN activation of a live node is set to 1, and   *)
(* steps run without interruption.  The numbers of calls and of steps are  *)
(* bounded.                                                                *)
(***************************************************************************)
NoNChain == 4
MaxChainCalls == 6

InitChain ==
    /\ ConstructedSized(TRUE, "64", NoNChain)
    /\ gate = Gate("gen", GateDefaults)
    /\ activators = [t \in {} |-> 0]

ChainCreateNode ==
    /\ ncalls < MaxChainCalls
    /\ CreateNodeCall("Register", nodespace_to_id(1), NoUid, NoParam)
    /\ ncalls' = ncalls + 1

ChainSetLinkWeight ==
    \E s \in LiveNodeUids, t \in LiveNodeUids :
        /\ ncalls < MaxChainCalls
        /\ s # t
        /\ SetLinkWeightCall(s, "gen", t, "gen", One)
        /\ ncalls' = ncalls + 1

ChainSetGateActivation ==
    \E uid \in LiveNodeUids :
        LET S == set_gate_activation(Net, uid, "gen", One)
        IN /\ ncalls < MaxChainCalls
           /\ Install(S)
           /\ call' = [NoCall EXCEPT !.op = "set_gate_activation", !.uid = uid]
           /\ ncalls' = ncalls + 1
           /\ UNCHANGED <<netlock, threads>>

ChainStep ==
    /\ current_step < MaxSteps
    /\ Install(step(Net))
    /\ call' = [NoCall EXCEPT !.op = "step"]
    /\ UNCHANGED <<netlock, threads, ncalls>>

NextChain ==
    \/ ChainCreateNode
    \/ ChainSetLinkWeight
    \/ ChainSetGateActivation
    \/ ChainStep

SpecChain == InitChain /\ [][NextChain]_vars

\* the GEN element of a node
GenOf(S, id) == S.allocated_node_offsets[id] + GEN

\* the links of the net are exactly r1 -> r2 and r2 -> r3, GEN to gen, weight 1
IsChain(r1, r2, r3) ==
    /\ {r1, r2, r3} \subseteq LiveNodes(Net)
    /\ r1 # r2 /\ r2 # r3 /\ r1 # r3
    /\ \A i \in {r1, r2, r3} : allocated_nodes[i] = REGISTER
    /\ \A x, y \in Elements :
          WAt(w, x, y) = IF \/ (x = GenOf(Net, r2) /\ y = GenOf(Net, r1))
                            \/ (x = GenOf(Net, r3) /\ y = GenOf(Net, r2))
                         THEN One ELSE 0

\* the activation vector in which the GEN element of node id holds 1 and
\* every other element 0
OnlyActive(id) == [e \in Elements |-> IF e = GenOf(Net, id) THEN One ELSE 0]

(***************************************************************************)
(* C26: activation travels one link per step.  In a chain R1 -> R2 -> R3   *)
(* of Register nodes linked GEN to gen with weight 1, with R1.GEN = 1 and  *)
(* every other activation 0, one step leaves R2.GEN = 1 and R1.GEN =        *)
(* R3.GEN = 0, and a second step leaves R3.GEN = 1 and R1.GEN = R2.GEN = 0. *)
(***************************************************************************)
\* the unlinked, inactive net with the links r1 -> r2 -> r3 of weight 1 from
\* GEN to gen and the GEN activation of r1 set to 1
Chained(r1, r2, r3) ==
    set_gate_activation(
        set_link_weight(
            set_link_weight(Net, node_to_id(r1), "gen", node_to_id(r2), "gen", One),
            node_to_id(r2), "gen", node_to_id(r3), "gen", One),
        node_to_id(r1), "gen", One)

C26_OneLinkPerStep ==
    \A r1, r2, r3 \in LiveNodes(Net) :
        (/\ r1 # r2 /\ r2 # r3 /\ r1 # r3
         /\ \A i \in {r1, r2, r3} : allocated_nodes[i] = REGISTER
         /\ \A x, y \in Elements : WAt(w, x, y) = 0
         /\ \A e \in Elements : a[e] = 0)
            => /\ step(Chained(r1, r2, r3)).a = OnlyActive(r2)
               /\ step(step(Chained(r1, r2, r3))).a = OnlyActive(r3)

\* two steps have run on the chain and the activation is at its end
C26_Witness ==
    \E r1, r2, r3 \in DOMAIN allocated_nodes :
        /\ IsChain(r1, r2, r3)
        /\ a = OnlyActive(r3)
        /\ current_step = 2
        /\ call.op = "step"

(***************************************************************************)
(* SpecIO: Sensor and Actor nodes are created in Root for a datasource or  *)
(* a datatarget and deleted, values are written for a datasource and a     *)
(* datatarget, steps run without interruption and the actuators are read.  *)
(* The numbers of calls and of steps are bounded.                          *)
(***************************************************************************)
MaxIOCalls == 5

IOValues == {1, One}

IOCreateNode ==
    \E nodetype \in {"Sensor", "Actor"}, param \in DataNames :
        /\ ncalls < MaxIOCalls
        /\ CreateNodeCall(nodetype, nodespace_to_id(1), NoUid, param)
        /\ ncalls' = ncalls + 1

IODeleteNode ==
    \E uid \in LiveNodeUids :
        /\ ncalls < MaxIOCalls
        /\ DeleteNodeCall(uid)
        /\ ncalls' = ncalls + 1

\* the value maps of the calls: one name, or the two names in either order
\* with two values
IOValueMaps ==
    {<<<<d, v>>>> : d \in DataNames, v \in IOValues}
      \cup {<<<<m[1], m[3]>>, <<m[2], m[4]>>>> :
               m \in {x \in DataNames \X DataNames \X IOValues \X IOValues :
                         x[1] # x[2] /\ x[3] # x[4]}}

IOSetSensors ==
    \E datasource_to_value_map \in IOValueMaps, datatarget_to_value_map \in IOValueMaps :
        LET S == set_sensors_and_actuator_feedback_to_values(
                     Net, datasource_to_value_map, datatarget_to_value_map)
        IN /\ ncalls < MaxIOCalls
           /\ Install(S)
           /\ call' = [NoCall EXCEPT !.op = "set_sensors_and_actuator_feedback_to_values"]
           /\ ncalls' = ncalls + 1
           /\ UNCHANGED <<netlock, threads>>

IOStep ==
    /\ current_step < MaxSteps
    /\ Install(step(Net))
    /\ call' = [NoCall EXCEPT !.op = "step"]
    /\ UNCHANGED <<netlock, threads, ncalls>>

IOReadActuators ==
    /\ call.op # "read_actuators"
    /\ call' = [NoCall EXCEPT !.op = "read_actuators", !.ret = read_actuators(Net)]
    /\ UNCHANGED <<netvars, extvars, netlock, threads, ncalls>>

NextIO ==
    \/ IOCreateNode
    \/ IODeleteNode
    \/ IOSetSensors
    \/ IOStep
    \/ IOReadActuators

SpecIO == Init /\ [][NextIO]_vars

\* the live nodes of a type that a map lists for a name
BoundNodes(map, name, type) ==
    IF name \notin DOMAIN map THEN {}
    ELSE {id \in LiveNodes(Net) :
             /\ allocated_nodes[id] = type
             /\ \E k \in 1..Len(map[name]) : map[name][k] = id}

C28_ActuatorSum ==
    \A t \in DataNames :
        BoundNodes(actuatormap, t, ACTUATOR) # {}
            => /\ t \in DOMAIN read_actuators(Net)
               /\ read_actuators(Net)[t]
                     = Sum([id \in DOMAIN allocated_nodes |-> a[GenOf(Net, id)]],
                           BoundNodes(actuatormap, t, ACTUATOR))

(***************************************************************************)
(* merge_data and merge_nodespace_data.  nodenet_data holds the            *)
(* nodespaces, the nodes and the links as sequences of records, in the     *)
(* order in which the loops visit them: for the nodes and the links the    *)
(* order of the dict, for the nodespaces the order of a set of uids, which *)
(* is any order.  The data holds no gate activations and no monitors.  A   *)
(* call returns the instance and the uidmap it has built; err is the       *)
(* exception that ends the call, with the instance as the call left it.    *)
(***************************************************************************)
\* the uid "Root" of the root nodespace in the data of the dict engine
RootName == <<"Root">>

\* the names of STANDARD_NODETYPES
STANDARD_NODETYPES == {"Nodespace", "Register", "Sensor", "Actor", "Pipe", "Activator"}

\* data[uid] as a sequence: empty when the dict has no such key
Entry(data, uid) == SelectSeq(data, LAMBDA d : d.uid = uid)

\* merge_nodespace_data(nodespace_uid, data, uidmap, keep_uids); entered
\* holds the uids of the calls that are waiting for this one, and a call for
\* one of them would never return
RECURSIVE MergeNodespace(_, _, _, _, _, _)
MergeNodespace(S, nodespace_uid, data, uidmap, keep_uids, entered) ==
    LET Raise(e) == [net |-> [S EXCEPT !.err = e, !.ret = 0], uidmap |-> uidmap]
        Return == [net |-> [S EXCEPT !.err = "ok", !.ret = 0], uidmap |-> uidmap]
        d == Entry(data, nodespace_uid)[1]
        position == IF "position" \in DOMAIN d THEN d.position ELSE NoPosition
        name == IF "name" \in DOMAIN d THEN d.name ELSE "Root"
        parent_uid == d.parent_nodespace
    IN IF nodespace_uid \in entered THEN Raise("RecursionError")
       ELSE IF keep_uids
       THEN IF nodespace_uid = RootName THEN Raise("ValueError")
            ELSE IF nodespace_from_id(nodespace_uid) \notin NodespaceIds THEN Raise("IndexError")
            ELSE IF S.allocated_nodespaces[nodespace_from_id(nodespace_uid)] # 0 THEN Return
            ELSE IF Entry(data, nodespace_uid) = <<>> THEN Raise("KeyError")
            ELSE IF nodespace_from_id(nodespace_uid) = 1
                 THEN [net |-> create_nodespace(S, parent_uid, position, name, nodespace_uid),
                       uidmap |-> uidmap]
            ELSE IF parent_uid = NoUid THEN Raise("TypeError")
            ELSE IF parent_uid = RootName THEN Raise("ValueError")
            ELSE IF nodespace_from_id(parent_uid) \notin NodespaceIds THEN Raise("IndexError")
            ELSE LET up == IF S.allocated_nodespaces[nodespace_from_id(parent_uid)] = 0
                           THEN MergeNodespace(S, nodespace_to_id(nodespace_from_id(parent_uid)),
                                               data, uidmap, keep_uids,
                                               entered \cup {nodespace_uid})
                           ELSE Return
                 IN IF up.net.err # "ok" THEN up
                    ELSE [net |-> create_nodespace(up.net, parent_uid, position, name, nodespace_uid),
                          uidmap |-> up.uidmap]
       ELSE IF nodespace_uid \in DOMAIN uidmap THEN Return
            ELSE IF Entry(data, nodespace_uid) = <<>> THEN Raise("KeyError")
            ELSE LET up == IF parent_uid \notin DOMAIN uidmap
                           THEN MergeNodespace(S, parent_uid, data, uidmap, keep_uids,
                                               entered \cup {nodespace_uid})
                           ELSE Return
                     T == create_nodespace(up.net, up.uidmap[parent_uid], position, name, NoUid)
                 IN IF up.net.err # "ok" THEN up
                    ELSE IF T.err # "ok" THEN [net |-> T, uidmap |-> up.uidmap]
                    ELSE [net |-> T,
                          uidmap |-> MapPut(up.uidmap, nodespace_uid, nodespace_to_id(T.ret))]

merge_nodespace_data(S, nodespace_uid, data, uidmap, keep_uids) ==
    [MergeNodespace(S, nodespace_uid, data, uidmap, keep_uids, {}) EXCEPT !.net.ret = 0]

\* merge_data, the loop over nodespaces_to_merge
RECURSIVE MergeNodespaces(_, _, _, _)
MergeNodespaces(R, nodespaces_to_merge, data, keep_uids) ==
    IF nodespaces_to_merge = <<>> \/ R.net.err # "ok" THEN R
    ELSE MergeNodespaces(merge_nodespace_data(R.net, nodespaces_to_merge[1], data,
                                              R.uidmap, keep_uids),
                         Tail(nodespaces_to_merge), data, keep_uids)

\* merge_data, the loop over the nodes: a node of a type that is not known
\* is skipped with a warning
RECURSIVE MergeNodes(_, _, _)
MergeNodes(R, nodes, keep_uids) ==
    IF nodes = <<>> \/ R.net.err # "ok" THEN R
    ELSE LET data == nodes[1]
             T == create_node(R.net, data.type,
                              IF keep_uids THEN data.parent_nodespace
                              ELSE R.uidmap[data.parent_nodespace],
                              data.position,
                              data.name,
                              IF keep_uids THEN data.uid ELSE NoUid,
                              data.parameters)
         IN IF ~keep_uids /\ data.parent_nodespace \notin DOMAIN R.uidmap
            THEN [R EXCEPT !.net.err = "KeyError"]
            ELSE IF data.type \notin STANDARD_NODETYPES
                 THEN MergeNodes(R, Tail(nodes), keep_uids)
                 ELSE IF T.err # "ok" THEN [R EXCEPT !.net = T]
                      ELSE MergeNodes([net |-> T,
                                       uidmap |-> MapPut(R.uidmap, data.uid, node_to_id(T.ret))],
                                      Tail(nodes), keep_uids)

\* merge_data, the loop over the links
RECURSIVE MergeLinks(_, _)
MergeLinks(R, links) ==
    IF links = <<>> \/ R.net.err # "ok" THEN R
    ELSE LET data == links[1]
             T == create_link(R.net, R.uidmap[data.source_node_uid], data.source_gate_name,
                              R.uidmap[data.target_node_uid], data.target_slot_name,
                              data.weight)
         IN IF {data.source_node_uid, data.target_node_uid} \subseteq DOMAIN R.uidmap
            THEN MergeLinks([R EXCEPT !.net = T], Tail(links))
            ELSE [R EXCEPT !.net.err = "KeyError"]

\* nodenet_data without nodespaces, nodes and links
NoData == [nodespaces |-> <<>>, nodes |-> <<>>, links |-> <<>>]

\* merge_data(nodenet_data, keep_uids)
merge_data(S, nodenet_data, keep_uids) ==
    [MergeLinks(
        MergeNodes(
            MergeNodespaces(
                [net |-> [S EXCEPT !.err = "ok", !.ret = 0],
                 uidmap |-> [uid \in {RootName, nodespace_to_id(1)} |-> nodespace_to_id(1)]],
                [i \in 1..Len(nodenet_data.nodespaces) |-> nodenet_data.nodespaces[i].uid],
                nodenet_data.nodespaces, keep_uids),
            nodenet_data.nodes, keep_uids),
        nodenet_data.links).net EXCEPT !.ret = 0]

(***************************************************************************)
(* save and load.  The disk holds the metadata files by name and the data  *)
(* file of the engine's uid, which is the same file for every metadata     *)
(* file of a directory.  Of the metadata the names, the positions and the  *)
(* two maps are modelled.                                                  *)
(***************************************************************************)
FileNames == {"f1", "f2"}

\* json.dumps and json.load of a dict from names to lists of ids: the text
\* holds one pair for every key
json_dumps(m) == {<<k, m[k]>> : k \in DOMAIN m}

json_load(text) ==
    [k \in {p[1] : p \in text} |-> (CHOOSE p \in text : p[1] = k)[2]]

save(S, D, filename) ==
    [meta |-> MapPut(D.meta, filename,
                     {<<"actuatormap", json_dumps(S.actuatormap)>>,
                      <<"names", json_dumps(S.names)>>,
                      <<"positions", json_dumps(S.positions)>>,
                      <<"sensormap", json_dumps(S.sensormap)>>}),
     data |-> <<[allocated_nodes |-> S.allocated_nodes,
                 allocated_node_offsets |-> S.allocated_node_offsets,
                 allocated_elements_to_nodes |-> S.allocated_elements_to_nodes,
                 allocated_node_parents |-> S.allocated_node_parents,
                 allocated_nodespaces |-> S.allocated_nodespaces,
                 w |-> IF S.sparse THEN S.w ELSE ToSparse(S.w),
                 a |-> S.a,
                 n_function_selector |-> S.n_function_selector,
                 n_node_porlinked |-> S.n_node_porlinked,
                 n_node_retlinked |-> S.n_node_retlinked,
                 allocated_elements_to_activators |-> S.allocated_elements_to_activators,
                 allocated_nodespaces_activators |-> S.allocated_nodespaces_activators]>>]

\* the names in sorted order: save writes the keys of a dict with
\* sort_keys=True, and the dict that json.load returns keeps the order of
\* the file
DataOrder == <<"d1", "d2">>

FileOrder(m) == SelectSeq(DataOrder, LAMBDA k : k \in DOMAIN m)

\* initialize_nodenet(initfrom): the metadata that save writes holds no
\* nodes, nodespaces or links for merge_data
initialize_nodenet(S, initfrom) ==
    IF initfrom = {} THEN S
    ELSE [merge_data(S, NoData, TRUE) EXCEPT !.names = json_load(json_load(initfrom)["names"]),
                   !.positions = json_load(json_load(initfrom)["positions"]),
                   !.actuatormap = json_load(json_load(initfrom)["actuatormap"]),
                   !.sensormap = json_load(json_load(initfrom)["sensormap"]),
                   !.key_order =
                       [sensormap |-> FileOrder(json_load(json_load(initfrom)["sensormap"])),
                        actuatormap |-> FileOrder(json_load(json_load(initfrom)["actuatormap"]))]]

\* load, the part "if datafile:"
LoadData(S, datafile) ==
    [S EXCEPT !.allocated_nodes = datafile.allocated_nodes,
              !.allocated_node_offsets = datafile.allocated_node_offsets,
              !.allocated_elements_to_nodes = datafile.allocated_elements_to_nodes,
              !.allocated_nodespaces = datafile.allocated_nodespaces,
              !.allocated_node_parents = datafile.allocated_node_parents,
              !.allocated_elements_to_activators = datafile.allocated_elements_to_activators,
              !.allocated_nodespaces_activators = datafile.allocated_nodespaces_activators,
              !.w = IF S.sparse
                    THEN [p \in DOMAIN datafile.w |-> ToFloatX(S, datafile.w[p])]
                    ELSE [p \in Elements \X Elements |->
                             ToFloatX(S, ToDense(datafile.w)[p])],
              !.a = [e \in Elements |-> ToFloatX(S, datafile.a[e])],
              !.n_function_selector = datafile.n_function_selector,
              !.n_node_porlinked = datafile.n_node_porlinked,
              !.n_node_retlinked = datafile.n_node_retlinked]

\* for sensor, id_list in map.items(): for id in id_list: inverted[to_id(id)] = sensor
\* the keys are visited in the order of the dict, and a uid that several
\* keys list keeps the last of them
RECURSIVE InvertInto(_, _, _)
InvertInto(inverted, map, order) ==
    IF order = <<>> THEN inverted
    ELSE LET sensor == order[1]
             listed == {node_to_id(map[sensor][i]) : i \in 1..Len(map[sensor])}
         IN InvertInto([uid \in (DOMAIN inverted) \cup listed |->
                           IF uid \in listed THEN sensor ELSE inverted[uid]],
                       map, Tail(order))

\* load(filename): the instance after the call; ret is 1 for True
LoadMaps(S) ==
    [S EXCEPT !.inverted_sensor_map =
                  InvertInto(S.inverted_sensor_map, S.sensormap, S.key_order.sensormap),
              !.inverted_actuator_map =
                  InvertInto(S.inverted_actuator_map, S.actuatormap, S.key_order.actuatormap),
              !.err = "ok", !.ret = 1]

load(S, D, filename) ==
    LoadMaps(IF D.data # <<>>
             THEN LoadData(initialize_nodenet(S, IF filename \in DOMAIN D.meta
                                                 THEN D.meta[filename] ELSE {}), D.data[1])
             ELSE initialize_nodenet(S, IF filename \in DOMAIN D.meta
                                        THEN D.meta[filename] ELSE {}))

(***************************************************************************)
(* SpecMerge: nodes and nodespaces are created and deleted, and data is    *)
(* merged into the engine, with the uids of the data or with new ones.     *)
(* The data holds up to two of the nodespaces s1, s2 and s3 in either      *)
(* order, with a parent that the data holds, that the engine holds or that *)
(* neither holds, with a parent named by the uid of a node, or two         *)
(* nodespaces that are each other's parent; up to two nodes, of a known or *)
(* an unknown type, or one node with a uid beyond the node vectors; and up *)
(* to one link.  A name of the data is a name of its own, the uid of the   *)
(* entry or none, a position is a pair of numbers or none.  The number of  *)
(* calls is bounded.                                                       *)
(***************************************************************************)
MaxMergeCalls == 3

MergeNodespaceData ==
    LET s1 == [uid |-> nodespace_to_id(1), parent_nodespace |-> NoUid, name |-> "Root"]
        s2 == [uid |-> nodespace_to_id(2), parent_nodespace |-> nodespace_to_id(1), name |-> "A",
               position |-> <<1, 2>>]
        s3 == [uid |-> nodespace_to_id(3), parent_nodespace |-> nodespace_to_id(2)]
        r2 == [uid |-> nodespace_to_id(2), parent_nodespace |-> RootName, name |-> "s2"]
        c2 == [uid |-> nodespace_to_id(2), parent_nodespace |-> nodespace_to_id(3)]
        p3 == [uid |-> nodespace_to_id(3), parent_nodespace |-> node_to_id(2)]
    IN {<<>>, <<s2>>, <<s3>>, <<r2>>, <<s2, s3>>, <<s3, s2>>, <<s1, s2>>, <<s2, s1>>,
        <<c2, s3>>, <<p3, s2>>}

MergeNodeData ==
    LET n1 == [uid |-> node_to_id(1), type |-> "Register",
               parent_nodespace |-> nodespace_to_id(1), position |-> <<1, 2>>,
               name |-> "A", parameters |-> NoParam]
        n2 == [uid |-> node_to_id(2), type |-> "Sensor",
               parent_nodespace |-> nodespace_to_id(2), position |-> NoPosition,
               name |-> "n2", parameters |-> "d1"]
        c1 == [uid |-> node_to_id(1), type |-> "Comment",
               parent_nodespace |-> nodespace_to_id(1), position |-> <<1, 2>>,
               name |-> "A", parameters |-> NoParam]
        f3 == [uid |-> node_to_id(NoN), type |-> "Register",
               parent_nodespace |-> nodespace_to_id(1), position |-> NoPosition,
               name |-> "far", parameters |-> NoParam]
    IN {<<>>, <<n1>>, <<n1, n2>>, <<c1, n2>>, <<f3>>}

MergeLinkData ==
    LET link(s, t) == [source_node_uid |-> node_to_id(s), source_gate_name |-> "gen",
                       target_node_uid |-> node_to_id(t), target_slot_name |-> "gen",
                       weight |-> One]
    IN {<<>>, <<link(1, 1)>>, <<link(1, 2)>>}

MergeDataCall ==
    \E nodespaces \in MergeNodespaceData, nodes \in MergeNodeData, links \in MergeLinkData,
       keep_uids \in BOOLEAN :
        LET S == merge_data(Net, [nodespaces |-> nodespaces, nodes |-> nodes,
                                  links |-> links], keep_uids)
        IN /\ ncalls < MaxMergeCalls
           /\ Install(S)
           /\ call' = [NoCall EXCEPT !.op = "merge_data",
                                     !.param = IF keep_uids THEN "keep_uids" ELSE NoParam,
                                     !.err = S.err]
           /\ ncalls' = ncalls + 1
           /\ UNCHANGED <<netlock, threads>>

MergeCreateNode ==
    \E name \in {NoName, "n1"} :
        /\ ncalls < MaxMergeCalls
        /\ CreateNamedNodeCall("Register", nodespace_to_id(1), name, NoUid, NoParam)
        /\ ncalls' = ncalls + 1

MergeDeleteNode ==
    \E uid \in LiveNodeUids :
        /\ ncalls < MaxMergeCalls
        /\ DeleteNodeCall(uid)
        /\ ncalls' = ncalls + 1

MergeCreateNodespace ==
    /\ ncalls < MaxMergeCalls
    /\ CreateNodespaceCall(nodespace_to_id(1))
    /\ ncalls' = ncalls + 1

NextMerge ==
    \/ MergeDataCall
    \/ MergeCreateNode
    \/ MergeDeleteNode
    \/ MergeCreateNodespace

SpecMerge == Init /\ [][NextMerge]_vars

(***************************************************************************)
(* SpecPersist: a sparse or a dense engine creates Register, Sensor, Actor *)
(* and Activator nodes in Root, links them, deletes them and writes sensor *)
(* values; it is saved to one of two files of a directory and loaded from  *)
(* one of them, and a new engine with the same uid, configuration and size *)
(* replaces it while the files stay.  The number of calls is bounded.      *)
(***************************************************************************)
MaxPersistCalls == 6

InitPersist ==
    \E sp \in BOOLEAN : Constructed(sp, "64")

PersistCreateNode ==
    \E nodetype \in {"Register", "Sensor", "Actor", "Activator"},
       param \in {NoParam, "d1", "d2", "sub"} :
        /\ ncalls < MaxPersistCalls
        /\ nodetype = "Register" => param = NoParam
        /\ nodetype = "Sensor" => param \in DataNames
        /\ nodetype = "Actor" => param = "d1"
        /\ nodetype = "Activator" => param = "sub"
        /\ CreateNodeCall(nodetype, nodespace_to_id(1), NoUid, param)
        /\ ncalls' = ncalls + 1

PersistDeleteNode ==
    \E uid \in LiveNodeUids :
        /\ ncalls < MaxPersistCalls
        /\ DeleteNodeCall(uid)
        /\ ncalls' = ncalls + 1

PersistSetLinkWeight ==
    \E s \in LiveNodeUids, t \in LiveNodeUids, weight \in {0, One} :
        /\ ncalls < MaxPersistCalls
        /\ SetLinkWeightCall(s, "gen", t, "gen", weight)
        /\ ncalls' = ncalls + 1

PersistSetSensors ==
    \E ds \in DataNames :
        /\ ncalls < MaxPersistCalls
        /\ Install(set_sensors_and_actuator_feedback_to_values(
                       Net, <<<<ds, One>>>>, <<>>))
        /\ call' = [NoCall EXCEPT !.op = "set_sensors_and_actuator_feedback_to_values"]
        /\ ncalls' = ncalls + 1
        /\ UNCHANGED <<netlock, threads>>

PersistSave ==
    \E filename \in FileNames :
        /\ ncalls < MaxPersistCalls
        /\ disk' = save(Net, disk, filename)
        /\ call' = [NoCall EXCEPT !.op = "save", !.param = filename]
        /\ ncalls' = ncalls + 1
        /\ UNCHANGED <<netvars, gate, activators, record_storage, other, scan, netlock, threads>>

PersistLoad ==
    \E filename \in FileNames :
        /\ ncalls < MaxPersistCalls
        /\ Install(load(Net, disk, filename))
        /\ call' = [NoCall EXCEPT !.op = "load", !.param = filename,
                                  !.ret = load(Net, disk, filename).ret]
        /\ ncalls' = ncalls + 1
        /\ UNCHANGED <<netlock, threads>>

\* remove(filename): os.remove of the data file, then of the metadata file;
\* os.remove of a file that does not exist raises FileNotFoundError
remove(D, filename) ==
    IF D.data = <<>>
    THEN [disk |-> D, err |-> "FileNotFoundError"]
    ELSE IF filename \notin DOMAIN D.meta
         THEN [disk |-> [D EXCEPT !.data = <<>>], err |-> "FileNotFoundError"]
         ELSE [disk |-> [meta |-> MapDel(D.meta, filename), data |-> <<>>], err |-> "ok"]

PersistRemove ==
    \E filename \in FileNames :
        /\ ncalls < MaxPersistCalls
        /\ disk' = remove(disk, filename).disk
        /\ call' = [NoCall EXCEPT !.op = "remove", !.param = filename,
                                  !.err = remove(disk, filename).err]
        /\ ncalls' = ncalls + 1
        /\ UNCHANGED <<netvars, gate, activators, record_storage, other, scan, netlock, threads>>

\* TheanoNodenet(uid=...) again in a new process, in the same configuration
\* and of the same size
PersistNewEngine ==
    /\ ncalls < MaxPersistCalls
    /\ call.op # "init"
    /\ Install(FreshNet(sparse, precision, Cardinality(DOMAIN allocated_nodes)))
    /\ call' = NoCall
    /\ ncalls' = ncalls + 1
    /\ UNCHANGED <<netlock, threads>>

NextPersist ==
    \/ PersistCreateNode
    \/ PersistDeleteNode
    \/ PersistSetLinkWeight
    \/ PersistSetSensors
    \/ PersistSave
    \/ PersistLoad
    \/ PersistRemove
    \/ PersistNewEngine

SpecPersist == InitPersist /\ [][NextPersist]_vars

\* what the round trip is about: the uids of the live nodes, the link
\* weights, the activations, the selector and flag vectors, the activator
\* bindings and the four maps
Snapshot(S) ==
    [node_uids |-> {node_to_id(id) : id \in LiveNodes(S)},
     link_weights |-> [p \in Elements \X Elements |-> WAt(S.w, p[1], p[2])],
     a |-> S.a,
     n_function_selector |-> S.n_function_selector,
     n_node_porlinked |-> S.n_node_porlinked,
     n_node_retlinked |-> S.n_node_retlinked,
     allocated_nodespaces_activators |-> S.allocated_nodespaces_activators,
     allocated_elements_to_activators |-> S.allocated_elements_to_activators,
     sensormap |-> S.sensormap,
     inverted_sensor_map |-> S.inverted_sensor_map,
     actuatormap |-> S.actuatormap,
     inverted_actuator_map |-> S.inverted_actuator_map]

(***************************************************************************)
(* C29: save(path) followed by load(path) on the same engine gives back    *)
(* the live node uids, the link weights, the vector a, the selector and    *)
(* flag vectors, the activator bindings and the sensor and actuator maps   *)
(* with their inverted maps as they were before the save.                  *)
(***************************************************************************)
C29_SaveLoadRoundTrip ==
    \A filename \in FileNames :
        Snapshot(load(Net, save(Net, disk, filename), filename)) = Snapshot(Net)

(***************************************************************************)
(* C30: a load of a metadata file that does not exist does not return      *)
(* success and installs no array of the data file.                         *)
(***************************************************************************)
C30_MissingMetadataFatal ==
    \A filename \in FileNames \ DOMAIN disk.meta :
        /\ load(Net, disk, filename).ret # 1
        /\ Snapshot(load(Net, disk, filename)) = Snapshot(Net)

(***************************************************************************)
(* C31: the array that group_nodes_by_ids stores for a set of live nodes   *)
(* is ascending in the element offsets, whatever calls of create_node and  *)
(* delete_node produced the nodes.                                         *)
(***************************************************************************)
C31_GroupSortedByOffset ==
    \A node_uids \in (SUBSET LiveNodeUids) \ {{}} :
        LET group == group_nodes_by_ids(Net, ListOf(node_uids), "A").nodegroups["A"]
        IN \A i \in 1..Len(group), j \in 1..Len(group) :
               i < j => group[i] < group[j]

(***************************************************************************)
(* Node.node_function: the node function of the node's type is called      *)
(* inside a try statement with handlers for SyntaxError and TypeError.     *)
(* Both handlers call warnings.warn, and the module does not import        *)
(* warnings, so a handler that is entered raises NameError.  "ok" stands   *)
(* for the normal return, every other value is the exception that leaves   *)
(* node_function.                                                          *)
(***************************************************************************)
Raised == {"none", "SyntaxError", "TypeError", "ValueError", "KeyError"}

\* the names that the module node.py binds at its top level by import
ModuleImports == {"micropsi_core", "NetEntity"}

\* warnings.warn(...) in a handler
WarningsWarn == IF "warnings" \in ModuleImports THEN "ok" ELSE "NameError"

\* STANDARD_NODETYPES: the types with a "nodefunction_definition"
HasNodefunction(type) == type \in {"Sensor", "Actor", "Concept", "Label", "Event", "Activator"}

\* Node.node_function: what leaves the call
node_function(type, world, raised) ==
    IF type = "Actor" /\ ~world THEN "ok"
    ELSE IF ~HasNodefunction(type) THEN "ok"
    ELSE IF raised = "none" THEN "ok"
    ELSE IF raised \in {"SyntaxError", "TypeError"} THEN WarningsWarn
    ELSE raised

(***************************************************************************)
(* SpecNode: the gate and the activators of SpecGate, and calls of         *)
(* Node.node_function on a Register, a Concept or an Actor, with or        *)
(* without a world, whose node function returns or raises.  The node       *)
(* function of a Concept that returns has called the gate function.        *)
(***************************************************************************)
NodeNodeFunction ==
    \E type \in {"Register", "Concept", "Actor"}, world \in BOOLEAN, raised \in Raised,
       input_activation \in {0, GOne} :
        /\ ncalls < MaxGateCalls
        /\ gate' = IF type = "Concept" /\ raised = "none"
                   THEN gate_function(gate, activators, input_activation)
                   ELSE gate
        /\ call' = [NoCall EXCEPT !.op = "node_function", !.nodetype = type,
                                  !.param = raised,
                                  !.err = node_function(
                                              type, world,
                                              IF /\ type = "Concept" /\ raised = "none"
                                                 /\ GateFunctionRaises(gate, activators)
                                              THEN "KeyError" ELSE raised)]
        /\ ncalls' = ncalls + 1
        /\ UNCHANGED <<netvars, netlock, threads, activators, disk, record_storage, other, scan>>

NextNode ==
    \/ GateNodeFunction
    \/ GateActivatorNodeFunction
    \/ GateSetGateParameters
    \/ NodeNodeFunction

SpecNode == InitGate /\ [][NextNode]_vars

(***************************************************************************)
(* C32: whatever the node function raises, Node.node_function returns      *)
(* normally to its caller.                                                 *)
(***************************************************************************)
C32_NodefunctionErrorTrapped ==
    call.op = "node_function" => call.err = "ok"

(***************************************************************************)
(* micropsi_logger: RecordWebStorageHandler.emit trims the record storage  *)
(* of its channel from the front and appends the record;                   *)
(* MicropsiLogger.clear_logs empties the storage.                          *)
(***************************************************************************)
MAX_RECORDS_PER_STORAGE == 1000

RECURSIVE TrimStorage(_)
\* while len(self.record_storage) >= MAX_RECORDS_PER_STORAGE: del self.record_storage[0]
TrimStorage(storage) ==
    IF Len(storage) >= MAX_RECORDS_PER_STORAGE THEN TrimStorage(Tail(storage))
    ELSE storage

\* an emit that drops the newest stored record to make room
EmitDropsNewest(storage, record) ==
    LET dictrecord == [logger |-> record.name, time |-> record.created * 1000,
                       level |-> record.levelname, msg |-> record.message]
    IN IF Len(storage) >= MAX_RECORDS_PER_STORAGE
       THEN Append(SubSeq(storage, 1, MAX_RECORDS_PER_STORAGE - 1), dictrecord)
       ELSE Append(storage, dictrecord)

emit(storage, record) ==
    LET dictrecord == [logger |-> record.name, time |-> record.created * 1000,
                       level |-> record.levelname, msg |-> record.message]
    IN Append(TrimStorage(storage), dictrecord)

\* del self.system_record_storage[:]
clear_logs(storage) == <<>>

(***************************************************************************)
(* SpecLogger: records arrive at the handler of the channel "system" one   *)
(* after the other, the n-th at the time n with the message n, as warnings *)
(* and as errors; the log is cleared when the storage is full or in the    *)
(* first calls.  The number of records is bounded.                         *)
(***************************************************************************)
MaxEmits == 1003
ClearBelow == 3

LoggerEmit ==
    /\ ncalls < MaxEmits
    /\ record_storage' = emit(record_storage,
                              [name |-> "system", created |-> ncalls + 1,
                               levelname |-> IF ncalls % 2 = 0 THEN "WARNING" ELSE "ERROR",
                               message |-> ncalls + 1])
    /\ call' = [NoCall EXCEPT !.op = "emit"]
    /\ ncalls' = ncalls + 1
    /\ UNCHANGED <<netvars, netlock, threads, gate, activators, disk, other, scan>>

LoggerClearLogs ==
    /\ Len(record_storage) = MAX_RECORDS_PER_STORAGE \/ ncalls < ClearBelow
    /\ call.op # "clear_logs"
    /\ record_storage' = clear_logs(record_storage)
    /\ call' = [NoCall EXCEPT !.op = "clear_logs"]
    /\ UNCHANGED <<netvars, netlock, threads, ncalls, gate, activators, disk, other, scan>>

NextLogger ==
    \/ LoggerEmit
    \/ LoggerClearLogs

SpecLogger == Init /\ [][NextLogger]_vars

(***************************************************************************)
(* C33: the storage of a channel is a bounded FIFO.  It holds at most      *)
(* MAX_RECORDS_PER_STORAGE records, the newest record is the last one, the *)
(* records are in the order of their arrival without a gap, and an emit    *)
(* drops records from the front only.                                      *)
(***************************************************************************)
C33_BoundedFifo ==
    /\ Len(record_storage) <= MAX_RECORDS_PER_STORAGE
    /\ call.op = "emit" =>
          /\ record_storage # <<>>
          /\ record_storage[Len(record_storage)].msg = ncalls
    /\ \A k \in 1..(Len(record_storage) - 1) :
          record_storage[k + 1].msg = record_storage[k].msg + 1
    /\ \A record \in {[name |-> "system", created |-> ncalls + 1,
                       levelname |-> "WARNING", message |-> ncalls + 1]} :
          LET after == emit(record_storage, record)
              kept == Len(after) - 1
          IN /\ kept <= Len(record_storage)
             /\ SubSeq(after, 1, kept)
                   = SubSeq(record_storage, Len(record_storage) - kept + 1,
                            Len(record_storage))
             /\ after[Len(after)].msg = record.message
             /\ kept = IF Len(record_storage) < MAX_RECORDS_PER_STORAGE
                       THEN Len(record_storage) ELSE MAX_RECORDS_PER_STORAGE - 1

\* the storage is full and its oldest record is no longer the first that arrived
C33_Witness ==
    /\ call.op = "emit"
    /\ Len(record_storage) = MAX_RECORDS_PER_STORAGE
    /\ record_storage[1].msg = 3
    /\ record_storage[MAX_RECORDS_PER_STORAGE].msg = MAX_RECORDS_PER_STORAGE + 2

(***************************************************************************)
(* C34: create_nodespace without uid succeeds with a free id whenever some *)
(* nodespace id from 2 on is free, an id that delete_nodespace released    *)
(* included, and fails only when every such id is in use.                  *)
(***************************************************************************)
C34_NodespaceIdReused ==
    LET free == {id \in 2..(NoNS - 1) : allocated_nodespaces[id] = 0}
        T == create_nodespace(Net, nodespace_to_id(1), NoPosition, NoName, NoUid)
    IN /\ free # {} => (T.err = "ok" /\ T.ret \in free)
       /\ free = {} => T.err # "ok"

(***************************************************************************)
(* C35: after any calls of create_node and delete_node the seven elements  *)
(* of every live Pipe carry the seven Pipe node function selectors in the  *)
(* order GEN, POR, RET, SUB, SUR, CAT, EXP.                                *)
(***************************************************************************)
C35_PipeSelectorsKept ==
    \A id \in LiveNodes(Net) :
        allocated_nodes[id] = PIPE =>
            LET offset == allocated_node_offsets[id]
            IN /\ n_function_selector[offset + GEN] = NFPG_PIPE_GEN
               /\ n_function_selector[offset + POR] = NFPG_PIPE_POR
               /\ n_function_selector[offset + RET] = NFPG_PIPE_RET
               /\ n_function_selector[offset + SUB] = NFPG_PIPE_SUB
               /\ n_function_selector[offset + SUR] = NFPG_PIPE_SUR
               /\ n_function_selector[offset + CAT] = NFPG_PIPE_CAT
               /\ n_function_selector[offset + EXP] = NFPG_PIPE_EXP

(***************************************************************************)
(* The element scan of create_node, one iteration of its while loop per    *)
(* step.  scan.pc is "loop" while the loop runs, "returned" after the      *)
(* break with an offset and "raised" after the MemoryError; scan.wraps     *)
(* counts the restarts from zero.                                          *)
(***************************************************************************)
ElementCounts == {1, 3, 7}

\* an advance that stays where it is when the first element is in use
ScanAdvanceStuck(i, freecount) == i + freecount

\* i += freecount+1
ScanAdvance(i, freecount) == i + freecount + 1

\* i = self.last_allocated_offset + 1, before the loop
ScanStart ==
    \E ae \in [Elements -> {0, 1}], cursor \in Elements, n \in ElementCounts :
        /\ scan.pc = "idle"
        /\ scan' = [NoScan EXCEPT !.pc = "loop",
                                  !.allocated_elements_to_nodes = ae,
                                  !.last_allocated_offset = cursor,
                                  !.number_of_elements = n,
                                  !.i = cursor + 1]
        /\ call' = [NoCall EXCEPT !.op = "create_node"]
        /\ UNCHANGED <<netvars, netlock, threads, ncalls, gate, activators, disk,
                       record_storage, other>>

\* one pass through the body of "while offset < 1"
ScanIterate ==
    /\ scan.pc = "loop"
    /\ LET freecount == FreeCount(scan.allocated_elements_to_nodes,
                                  scan.number_of_elements, scan.i)
           i == ScanAdvance(scan.i, freecount)
       IN scan' =
            IF freecount >= scan.number_of_elements
            THEN [scan EXCEPT !.offset = scan.i, !.pc = "returned"]
            ELSE IF i >= NoE
                 THEN IF ~ scan.has_restarted_from_zero
                      THEN [scan EXCEPT !.i = 0, !.has_restarted_from_zero = TRUE,
                                        !.wraps = scan.wraps + 1]
                      ELSE [scan EXCEPT !.i = i, !.pc = "raised"]
                 ELSE [scan EXCEPT !.i = i]
    /\ UNCHANGED <<netvars, netlock, threads, call, ncalls, gate, activators, disk,
                   record_storage, other>>

NextScan ==
    \/ ScanStart
    \/ ScanIterate

\* the thread that called create_node keeps running
SpecScan == Init /\ [][NextScan]_vars /\ WF_vars(ScanIterate)

(***************************************************************************)
(* C36: the element scan terminates for every content of the element      *)
(* vector, every cursor and every element count: it returns an offset or   *)
(* raises MemoryError, it restarts from zero at most once, and its result  *)
(* is the one that create_node uses.                                       *)
(***************************************************************************)
C36_ScanTerminates ==
    /\ (scan.pc = "loop") ~> (scan.pc \in {"returned", "raised"})
    /\ [](scan.wraps <= 1)
    /\ [](scan.pc = "returned" =>
             scan.offset = ScanElements(scan.allocated_elements_to_nodes,
                                        scan.number_of_elements,
                                        scan.last_allocated_offset + 1, FALSE))
    /\ [](scan.pc = "raised" =>
             ScanElements(scan.allocated_elements_to_nodes, scan.number_of_elements,
                          scan.last_allocated_offset + 1, FALSE) = -1)

\* a scan for seven elements has restarted from zero and returned
C36_Witness ==
    /\ scan.pc = "returned"
    /\ scan.wraps = 1
    /\ scan.number_of_elements = 7
    /\ scan.last_allocated_offset = 4
    /\ scan.offset = 1

(***************************************************************************)
(* C37: no live node is at element offset 0, so that the value 0 in        *)
(* allocated_elements_to_activators never denotes an element of a node.    *)
(***************************************************************************)
C37_NoNodeAtOffsetZero ==
    /\ \A id \in LiveNodes(Net) : allocated_node_offsets[id] >= 1
    /\ allocated_elements_to_nodes[0] = 0

(***************************************************************************)
(* C38: in every state delete_node of any live node, of whatever type and  *)
(* at whatever element offset, runs to completion: it raises nothing, and  *)
(* afterwards the node is neither live nor listed in the sensor map, the   *)
(* actuator map, their inverted maps or an activator binding.              *)
(***************************************************************************)
C38_DeleteNodeCompletes ==
    \A uid \in LiveNodeUids :
        LET T  == delete_node(Net, uid)
            id == node_from_id(uid)
        IN /\ T.err = "ok"
           /\ T.allocated_nodes[id] = 0
           /\ \A key \in DOMAIN T.sensormap :
                 \A k \in 1..Len(T.sensormap[key]) : T.sensormap[key][k] # id
           /\ \A key \in DOMAIN T.actuatormap :
                 \A k \in 1..Len(T.actuatormap[key]) : T.actuatormap[key][k] # id
           /\ uid \notin DOMAIN T.inverted_sensor_map
           /\ uid \notin DOMAIN T.inverted_actuator_map
           /\ \A d \in Dirs : \A ns \in DOMAIN T.allocated_nodespaces_activators[d] :
                 T.allocated_nodespaces_activators[d][ns] # id

(***************************************************************************)
(* C39: in every state every element offset stored in a node group is the  *)
(* offset of a live node, so that get_activations, set_thetas and          *)
(* set_link_weights on the group touch no element that is free.            *)
(***************************************************************************)
C39_GroupOffsetsLive ==
    \A group \in DOMAIN nodegroups :
        \A k \in 1..Len(nodegroups[group]) :
            LET offset == nodegroups[group][k]
            IN /\ allocated_elements_to_nodes[offset] # 0
               /\ \E id \in LiveNodes(Net) \ {0} : allocated_node_offsets[id] = offset

(***************************************************************************)
(* SpecInstances: two engines constructed in one process.  The calls are   *)
(* made on the first engine, whose state is the state of the model; other  *)
(* is what the second engine reads through its own attributes sensormap,   *)
(* inverted_sensor_map, actuatormap and inverted_actuator_map.  An         *)
(* attribute that the class body binds to a dict and that __init__ does    *)
(* not assign is one object for the class and all its instances, and       *)
(* create_node and delete_node change these dicts in place.                *)
(***************************************************************************)
MaxInstanceCalls == 3

ClassDicts ==
    {"native_module_instances", "positions", "names", "sensormap",
     "inverted_sensor_map", "actuatormap", "inverted_actuator_map"}

InitAssignedDicts == {"nodegroups"}

IsClassShared(attribute) ==
    attribute \in ClassDicts /\ attribute \notin InitAssignedDicts

SeenByOther(S, seen) ==
    [attribute \in DOMAIN seen |->
        IF IsClassShared(attribute) THEN ClassMaps(S)[attribute] ELSE seen[attribute]]

InstanceCreateNode ==
    \E nodetype \in {"Sensor", "Actor"}, param \in {NoParam} \cup DataNames :
        LET S == create_node(Net, nodetype, nodespace_to_id(1), NoPosition, NoName, NoUid, param)
        IN /\ ncalls < MaxInstanceCalls
           /\ InstallNet(S)
           /\ other' = SeenByOther(S, other)
           /\ call' = [NoCall EXCEPT !.op = "create_node", !.nodetype = nodetype,
                                     !.nodespace = nodespace_to_id(1),
                                     !.param = param, !.err = S.err, !.ret = S.ret]
           /\ ncalls' = ncalls + 1
           /\ UNCHANGED <<netlock, threads, gate, activators, disk, record_storage, scan>>

InstanceDeleteNode ==
    \E uid \in LiveNodeUids :
        LET S == delete_node(Net, uid)
        IN /\ ncalls < MaxInstanceCalls
           /\ InstallNet(S)
           /\ other' = SeenByOther(S, other)
           /\ call' = [NoCall EXCEPT !.op = "delete_node", !.uid = uid, !.err = S.err]
           /\ ncalls' = ncalls + 1
           /\ UNCHANGED <<netlock, threads, gate, activators, disk, record_storage, scan>>

NextInstances ==
    \/ InstanceCreateNode
    \/ InstanceDeleteNode

SpecInstances == Init /\ [][NextInstances]_vars

(***************************************************************************)
(* C40: create_node and delete_node on one engine leave the sensor map,    *)
(* the actuator map and their inverted maps of another engine of the       *)
(* process as its construction left them.                                  *)
(***************************************************************************)
C40_InstancesShareNothing ==
    [][call'.op \in {"create_node", "delete_node"} => other' = other]_vars

====
